---- MODULE Spec2Model ----
(***************************************************************************)
(* Compliance monitoring and analytics engine of sped-sync (Convex         *)
(* backend): the record accessor, the compliance scanner, the notification *)
(* sink, the window aggregator, the trend bucketizer and the report store. *)
(*                                                                         *)
(* Time is counted in hours: the code's millisecond constants              *)
(* (n * 24 * 60 * 60 * 1000) are n * DayMs here, and a time range divided  *)
(* by the 6 trend periods stays a whole number of hours.                   *)
(* Every Convex query or mutation is one transaction, hence one action.    *)
(***************************************************************************)
EXTENDS Integers, Sequences, FiniteSets, TLC

VARIABLES ieps, progressData, notifications, reports, userProfiles, now, last,
          inflight

vars == <<ieps, progressData, notifications, reports, userProfiles, now, last,
          inflight>>

(***************************************************************************)
(* Bounds of the model                                                     *)
(***************************************************************************)
MaxTicks == 1
MaxNotifications == 6
MaxProgress == 2
MaxReports == 2
MaxStored == 2
MaxRecords == 2

(***************************************************************************)
(* Program constants                                                       *)
(***************************************************************************)
DayMs == 24

Users == {"u1", "u2"}
\* getAuthUserId(ctx) returns null when no actor is resolved
NoUser == "null"
Actors == Users \cup {NoUser}

Statuses == {"draft", "in_review", "approved", "active", "expired"}

StartTime == 400 * DayMs

(***************************************************************************)
(* JavaScript numbers that may be NaN, and their comparisons: every        *)
(* comparison with NaN is false.                                           *)
(***************************************************************************)
Num(n) == [nan |-> FALSE, v |-> n]
NaN == [nan |-> TRUE, v |-> 0]

NumLt(a, b) == ~a.nan /\ ~b.nan /\ a.v < b.v
NumLe(a, b) == ~a.nan /\ ~b.nan /\ a.v <= b.v
NumGe(a, b) == ~a.nan /\ ~b.nan /\ a.v >= b.v

(***************************************************************************)
(* annualReviewDate is a string.  A string that Date can parse is written  *)
(* [valid |-> TRUE, t |-> instant]; any other string is                    *)
(* [valid |-> FALSE, t |-> 0].  new Date(s).getTime() is NaN for the       *)
(* latter and never throws.                                                *)
(***************************************************************************)
DateString(t) == [valid |-> TRUE, t |-> t]
BadDateString == [valid |-> FALSE, t |-> 0]

parseDate(s) == IF s.valid THEN Num(s.t) ELSE NaN

(***************************************************************************)
(* Mutations that have started and not yet committed.  A Convex mutation   *)
(* runs against the snapshot it started on, buffers its writes and commits *)
(* them in one step; began is the number of notifications stored when it   *)
(* started.                                                                *)
(***************************************************************************)
Slots == {"a", "b"}

NoInflight ==
  [s \in Slots |-> [pc |-> "idle", actor |-> NoUser, writes |-> <<>>, began |-> 0]]

(***************************************************************************)
(* What the last operation was and what it returned or threw.  before is   *)
(* the number of notifications stored when it started.                     *)
(***************************************************************************)
Done(op, actor, args, outcome, ret) ==
  [op |-> op, actor |-> actor, args |-> args, outcome |-> outcome,
   ret |-> ret, before |-> Len(notifications)]

(***************************************************************************)
(* Record accessor                                                         *)
(***************************************************************************)
Range(s) == {s[i] : i \in 1..Len(s)}

RECURSIVE SelectIdx(_, _, _)
\* the indexes i of 1..n, in increasing order, with i \in S
SelectIdx(i, n, S) ==
  IF i > n THEN <<>>
  ELSE IF i \in S THEN <<i>> \o SelectIdx(i + 1, n, S)
  ELSE SelectIdx(i + 1, n, S)

hasAccess(iep, userId) ==
  iep.createdBy = userId \/ userId \in Range(iep.teamMembers)

\* allIEPs.filter(iep => createdBy === userId || teamMembers.includes(userId)),
\* as the ids of the kept documents in table order
accessibleIEPs(userId) ==
  SelectIdx(1, Len(ieps), {i \in 1..Len(ieps) : hasAccess(ieps[i], userId)})

(***************************************************************************)
(* Notification sink                                                       *)
(***************************************************************************)
\* ctx.db.insert("notifications", {..., read: false}); an absent optional
\* field is the empty set
createNotification(userId, type, title, message, priority, relatedId) ==
  [userId |-> userId, type |-> type, title |-> title, message |-> message,
   priority |-> priority, relatedId |-> relatedId, actionUrl |-> {},
   read |-> FALSE, readAt |-> {}]

(***************************************************************************)
(* Compliance scanner                                                      *)
(***************************************************************************)
\* variant: the overdue alert addressed to the owner of the record
overdueAlert_toOwner(id, userId) ==
  createNotification(ieps[id].createdBy, "compliance_alert", "Overdue IEP Review",
    <<"IEP for ", ieps[id].studentName, " is overdue for annual review.">>,
    "high", id)

\* the three review-deadline notifications
overdueAlert(id, userId) ==
  createNotification(userId, "compliance_alert", "Overdue IEP Review",
    <<"IEP for ", ieps[id].studentName, " is overdue for annual review.">>,
    "high", id)

dueSoonAlert(id, userId) ==
  createNotification(userId, "iep_due", "IEP Review Due Soon",
    <<"IEP for ", ieps[id].studentName, " is due for review within 7 days.">>,
    "high", id)

upcomingAlert(id, userId) ==
  createNotification(userId, "iep_due", "Upcoming IEP Review",
    <<"IEP for ", ieps[id].studentName, " is due for review within 30 days.">>,
    "medium", id)

\* variant: three independent ifs instead of the else-if chain
reviewAlerts_noElse(id, userId, t) ==
  LET iep == ieps[id]
      reviewDate == parseDate(iep.annualReviewDate)
      thirtyDaysFromNow == Num(t + 30 * DayMs)
      sevenDaysFromNow == Num(t + 7 * DayMs)
  IN (IF NumLt(reviewDate, Num(t)) /\ iep.status = "active"
      THEN <<overdueAlert(id, userId)>> ELSE <<>>)
     \o (IF NumLe(reviewDate, sevenDaysFromNow) /\ NumGe(reviewDate, Num(t))
         THEN <<dueSoonAlert(id, userId)>> ELSE <<>>)
     \o (IF NumLe(reviewDate, thirtyDaysFromNow) /\ NumGe(reviewDate, sevenDaysFromNow)
         THEN <<upcomingAlert(id, userId)>> ELSE <<>>)

\* variant: the overdue rule without the status test
reviewAlerts_noStatus(id, userId, t) ==
  LET iep == ieps[id]
      reviewDate == parseDate(iep.annualReviewDate)
      thirtyDaysFromNow == Num(t + 30 * DayMs)
      sevenDaysFromNow == Num(t + 7 * DayMs)
  IN IF NumLt(reviewDate, Num(t))
     THEN <<overdueAlert(id, userId)>>
     ELSE IF NumLe(reviewDate, sevenDaysFromNow) /\ NumGe(reviewDate, Num(t))
     THEN <<dueSoonAlert(id, userId)>>
     ELSE IF NumLe(reviewDate, thirtyDaysFromNow) /\ NumGe(reviewDate, sevenDaysFromNow)
     THEN <<upcomingAlert(id, userId)>>
     ELSE <<>>

\* variant: the 7-day window closed one instant early (< for <=)
reviewAlerts_strict(id, userId, t) ==
  LET iep == ieps[id]
      reviewDate == parseDate(iep.annualReviewDate)
      thirtyDaysFromNow == Num(t + 30 * DayMs)
      sevenDaysFromNow == Num(t + 7 * DayMs)
  IN IF NumLt(reviewDate, Num(t)) /\ iep.status = "active"
     THEN <<overdueAlert(id, userId)>>
     ELSE IF NumLt(reviewDate, sevenDaysFromNow) /\ NumGe(reviewDate, Num(t))
     THEN <<dueSoonAlert(id, userId)>>
     ELSE IF NumLe(reviewDate, thirtyDaysFromNow) /\ NumGe(reviewDate, sevenDaysFromNow)
     THEN <<upcomingAlert(id, userId)>>
     ELSE <<>>

\* the if / else-if chain on the review date of one record
reviewAlerts(id, userId, t) ==
  LET iep == ieps[id]
      reviewDate == parseDate(iep.annualReviewDate)
      thirtyDaysFromNow == Num(t + 30 * DayMs)
      sevenDaysFromNow == Num(t + 7 * DayMs)
  IN IF NumLt(reviewDate, Num(t)) /\ iep.status = "active"
     THEN <<overdueAlert(id, userId)>>
     ELSE IF NumLe(reviewDate, sevenDaysFromNow) /\ NumGe(reviewDate, Num(t))
     THEN <<dueSoonAlert(id, userId)>>
     ELSE IF NumLe(reviewDate, thirtyDaysFromNow) /\ NumGe(reviewDate, sevenDaysFromNow)
     THEN <<upcomingAlert(id, userId)>>
     ELSE <<>>

\* variant: the observations of every record, not only of this one
goalsWithRecentProgress_anyRecord(id, t) ==
  {p.goalId : p \in {q \in Range(progressData) :
                       q.creationTime >= t - 30 * DayMs}}

\* progressData of the record created in the last 30 days, as a set of goal ids
goalsWithRecentProgress(id, t) ==
  {p.goalId : p \in {q \in Range(progressData) :
                       q.iepId = id /\ q.creationTime >= t - 30 * DayMs}}

RECURSIVE goalAlertsFrom(_, _, _, _)
\* the loop over iep.content.goals from position k on
goalAlertsFrom(k, id, userId, t) ==
  LET iep == ieps[id]
      goals == iep.content.goals
  IN IF k > Len(goals) THEN <<>>
     ELSE (IF goals[k].id \notin goalsWithRecentProgress(id, t)
           THEN <<createNotification(userId, "goal_update",
                    "Goal Progress Update Needed",
                    <<"Goal \"", goals[k].area, "\" for ", iep.studentName,
                      " hasn't been updated in 30 days.">>,
                    "medium", id)>>
           ELSE <<>>)
          \o goalAlertsFrom(k + 1, id, userId, t)

RECURSIVE scanFrom(_, _, _, _)
\* the loop over the accessible records from position k on
scanFrom(k, ids, userId, t) ==
  IF k > Len(ids) THEN <<>>
  ELSE reviewAlerts(ids[k], userId, t) \o goalAlertsFrom(1, ids[k], userId, t)
       \o scanFrom(k + 1, ids, userId, t)

\* variant: a review date that does not parse throws, which rolls the whole
\* mutation back
scanAlerts_throwOnBadDate(userId, t) ==
  IF \E k \in 1..Len(accessibleIEPs(userId)) :
        ~ieps[accessibleIEPs(userId)[k]].annualReviewDate.valid
  THEN <<>>
  ELSE scanFrom(1, accessibleIEPs(userId), userId, t)

scanAlerts(userId, t) == scanFrom(1, accessibleIEPs(userId), userId, t)

\* variant: an alert equal to one already stored is not written again
checkComplianceAlerts_dedup(actor) ==
  IF actor = NoUser
  THEN /\ last' = Done("checkComplianceAlerts", actor, <<>>, "Not authenticated", <<>>)
       /\ UNCHANGED <<inflight, ieps, progressData, notifications, reports, userProfiles, now>>
  ELSE /\ Len(notifications) + Len(scanAlerts(actor, now)) <= MaxNotifications
       /\ notifications' = notifications \o
            SelectSeq(scanAlerts(actor, now), LAMBDA n : n \notin Range(notifications))
       /\ last' = Done("checkComplianceAlerts", actor, <<>>, "ok", <<>>)
       /\ UNCHANGED <<inflight, ieps, progressData, reports, userProfiles, now>>

\* variant: no test of the resolved actor
checkComplianceAlerts_noAuth(actor) ==
  /\ Len(notifications) + Len(scanAlerts(actor, now)) <= MaxNotifications
  /\ notifications' = notifications \o scanAlerts(actor, now)
  /\ last' = Done("checkComplianceAlerts", actor, <<>>, "ok", <<>>)
  /\ UNCHANGED <<inflight, ieps, progressData, reports, userProfiles, now>>

\* variant: the scan also marks the overdue records it finds as expired
checkComplianceAlerts_expiring(actor) ==
  IF actor = NoUser
  THEN /\ last' = Done("checkComplianceAlerts", actor, <<>>, "Not authenticated", <<>>)
       /\ UNCHANGED <<inflight, ieps, progressData, notifications, reports, userProfiles, now>>
  ELSE /\ Len(notifications) + Len(scanAlerts(actor, now)) <= MaxNotifications
       /\ notifications' = notifications \o scanAlerts(actor, now)
       /\ ieps' = [i \in 1..Len(ieps) |->
                     IF /\ hasAccess(ieps[i], actor)
                        /\ ieps[i].status = "active"
                        /\ NumLt(parseDate(ieps[i].annualReviewDate), Num(now))
                     THEN [ieps[i] EXCEPT !.status = "expired"]
                     ELSE ieps[i]]
       /\ last' = Done("checkComplianceAlerts", actor, <<>>, "ok", <<>>)
       /\ UNCHANGED <<inflight, progressData, reports, userProfiles, now>>

checkComplianceAlerts(actor) ==
  IF actor = NoUser
  THEN /\ last' = Done("checkComplianceAlerts", actor, <<>>, "Not authenticated", <<>>)
       /\ UNCHANGED <<inflight, ieps, progressData, notifications, reports, userProfiles, now>>
  ELSE /\ Len(notifications) + Len(scanAlerts(actor, now)) <= MaxNotifications
       /\ notifications' = notifications \o scanAlerts(actor, now)
       /\ last' = Done("checkComplianceAlerts", actor, <<>>, "ok", <<>>)
       /\ UNCHANGED <<inflight, ieps, progressData, reports, userProfiles, now>>

(***************************************************************************)
(* A mutation is one transaction: "The entire function either commits      *)
(* atomically or rolls back completely".  The handler of                   *)
(* checkComplianceAlerts catches nothing, so a createNotification that     *)
(* throws, or a timeout, ends the whole function with its buffered writes  *)
(* discarded.                                                              *)
(***************************************************************************)
\* variant: the writes made before the failure stay
commit_keepWrites(store, writes, threw) == store \o writes

commit(store, writes, threw) == IF threw THEN store ELSE store \o writes

\* the scan of actor fails while it evaluates the k-th record it can access,
\* after j of that record's notifications were written
checkComplianceAlertsAborted(actor, k, j) ==
  LET ids == accessibleIEPs(actor)
      ofRecord(id) == reviewAlerts(id, actor, now) \o goalAlertsFrom(1, id, actor, now)
      earlier == scanFrom(1, SubSeq(ids, 1, k - 1), actor, now)
      partial == SubSeq(ofRecord(ids[k]), 1, j)
  IN /\ actor # NoUser
     /\ k \in 1..Len(ids)
     /\ j \in 0..Len(ofRecord(ids[k]))
     /\ notifications' = commit(notifications, earlier \o partial, TRUE)
     /\ last' = Done("checkComplianceAlerts", actor, ids[k], "aborted",
                     [earlier |-> earlier, partial |-> partial])
     /\ UNCHANGED <<inflight, ieps, progressData, reports, userProfiles, now>>

(***************************************************************************)
(* Two invocations of checkComplianceAlerts in flight at once.  Each runs  *)
(* as its own serializable transaction: it reads the case records and the  *)
(* progress table when it starts, buffers the notifications it inserts and *)
(* appends them when it commits.  It reads nothing of the notification     *)
(* table, so a commit of the other invocation, or a read mark, between its *)
(* start and its commit is no conflict and nothing is retried.             *)
(***************************************************************************)
pendingWrites ==
  Len(inflight["a"].writes) * (IF inflight["a"].pc = "running" THEN 1 ELSE 0)
  + Len(inflight["b"].writes) * (IF inflight["b"].pc = "running" THEN 1 ELSE 0)

beginScan(slot, actor) ==
  /\ inflight[slot].pc = "idle"
  /\ actor # NoUser
  /\ Len(notifications) + pendingWrites + Len(scanAlerts(actor, now))
       <= MaxNotifications
  /\ inflight' = [inflight EXCEPT ![slot] =
        [pc |-> "running", actor |-> actor, writes |-> scanAlerts(actor, now),
         began |-> Len(notifications)]]
  /\ last' = Done("checkComplianceAlerts", actor, slot, "running", <<>>)
  /\ UNCHANGED <<ieps, progressData, notifications, reports, userProfiles, now>>

\* variant: the table is written back from the snapshot the scan started on
commitScan_fromSnapshot(slot) ==
  /\ inflight[slot].pc = "running"
  /\ notifications' = commit(SubSeq(notifications, 1, inflight[slot].began),
                             inflight[slot].writes, FALSE)
  /\ inflight' = [inflight EXCEPT ![slot].pc = "done"]
  /\ last' = Done("checkComplianceAlerts", inflight[slot].actor, slot, "ok", <<>>)
  /\ UNCHANGED <<ieps, progressData, reports, userProfiles, now>>

commitScan(slot) ==
  /\ inflight[slot].pc = "running"
  /\ notifications' = commit(notifications, inflight[slot].writes, FALSE)
  /\ inflight' = [inflight EXCEPT ![slot].pc = "done"]
  /\ last' = Done("checkComplianceAlerts", inflight[slot].actor, slot, "ok", <<>>)
  /\ UNCHANGED <<ieps, progressData, reports, userProfiles, now>>

(***************************************************************************)
(* Meeting reminders                                                       *)
(***************************************************************************)
MeetingDates == {"2026-02-01", "2026-03-01"}

meetingReminder(userId, iepId, meetingDate) ==
  createNotification(userId, "meeting_reminder", "IEP Meeting Reminder",
    <<"IEP meeting for ", ieps[iepId].studentName, " is scheduled for ",
      meetingDate, ".">>,
    "medium", iepId)

\* one reminder per team member, then one for the creator when the creator
\* is not on the team
remindersFor(iepId, meetingDate) ==
  [k \in 1..Len(ieps[iepId].teamMembers) |->
     meetingReminder(ieps[iepId].teamMembers[k], iepId, meetingDate)]
  \o (IF ieps[iepId].createdBy \notin Range(ieps[iepId].teamMembers)
      THEN <<meetingReminder(ieps[iepId].createdBy, iepId, meetingDate)>>
      ELSE <<>>)

\* variant: the reminders of the record already stored are replaced
sendMeetingReminder_replacing(actor, iepId, meetingDate) ==
  IF actor = NoUser
  THEN /\ last' = Done("sendMeetingReminder", actor, iepId, "Not authenticated", <<>>)
       /\ UNCHANGED <<inflight, ieps, progressData, notifications, reports, userProfiles, now>>
  ELSE IF iepId \notin 1..Len(ieps)
  THEN /\ last' = Done("sendMeetingReminder", actor, iepId, "IEP not found", <<>>)
       /\ UNCHANGED <<inflight, ieps, progressData, notifications, reports, userProfiles, now>>
  ELSE /\ Len(notifications) + Len(remindersFor(iepId, meetingDate)) <= MaxNotifications
       /\ notifications' =
            SelectSeq(notifications,
                      LAMBDA n : ~(n.type = "meeting_reminder" /\ n.relatedId = iepId))
            \o remindersFor(iepId, meetingDate)
       /\ last' = Done("sendMeetingReminder", actor, iepId, "ok", <<>>)
       /\ UNCHANGED <<inflight, ieps, progressData, reports, userProfiles, now>>

sendMeetingReminder(actor, iepId, meetingDate) ==
  IF actor = NoUser
  THEN /\ last' = Done("sendMeetingReminder", actor, iepId, "Not authenticated", <<>>)
       /\ UNCHANGED <<inflight, ieps, progressData, notifications, reports, userProfiles, now>>
  ELSE IF iepId \notin 1..Len(ieps)
  THEN /\ last' = Done("sendMeetingReminder", actor, iepId, "IEP not found", <<>>)
       /\ UNCHANGED <<inflight, ieps, progressData, notifications, reports, userProfiles, now>>
  ELSE /\ Len(notifications) + Len(remindersFor(iepId, meetingDate)) <= MaxNotifications
       /\ notifications' = notifications \o remindersFor(iepId, meetingDate)
       /\ last' = Done("sendMeetingReminder", actor, iepId, "ok", <<>>)
       /\ UNCHANGED <<inflight, ieps, progressData, reports, userProfiles, now>>

(***************************************************************************)
(* Progress observations                                                   *)
(***************************************************************************)
GoalIds == {"g1", "g2"}

\* ctx.db.insert("progressData", {...}); _creationTime is the time of the insert
addProgressData(actor, iepId, goalId) ==
  IF actor = NoUser
  THEN /\ last' = Done("addProgressData", actor, [iepId |-> iepId, goalId |-> goalId], "Not authenticated", <<>>)
       /\ UNCHANGED <<inflight, ieps, progressData, notifications, reports, userProfiles, now>>
  ELSE /\ Len(progressData) < MaxProgress
       /\ progressData' = Append(progressData,
            [iepId |-> iepId, goalId |-> goalId, recordedBy |-> actor,
             creationTime |-> now])
       /\ last' = Done("addProgressData", actor, [iepId |-> iepId, goalId |-> goalId], "ok", Len(progressData) + 1)
       /\ UNCHANGED <<inflight, ieps, notifications, reports, userProfiles, now>>

(***************************************************************************)
(* The clock                                                               *)
(***************************************************************************)
Tick ==
  /\ now < StartTime + MaxTicks
  /\ now' = now + 1
  /\ last' = Done("tick", NoUser, <<>>, "ok", <<>>)
  /\ UNCHANGED <<inflight, ieps, progressData, notifications, reports, userProfiles>>

(***************************************************************************)
(* Record listing and single-record fetch                                  *)
(***************************************************************************)
\* the by_created_by index: the ids of the documents with that createdBy
getUserIEPs(actor) ==
  /\ last' = IF actor = NoUser
             THEN Done("getUserIEPs", actor, <<>>, "ok", <<>>)
             ELSE Done("getUserIEPs", actor, <<>>, "ok",
                       SelectIdx(1, Len(ieps),
                                 {i \in 1..Len(ieps) : ieps[i].createdBy = actor}))
  /\ UNCHANGED <<inflight, ieps, progressData, notifications, reports, userProfiles, now>>

getIEP(actor, iepId) ==
  /\ last' = IF actor = NoUser
             THEN Done("getIEP", actor, iepId, "Not authenticated", <<>>)
             ELSE IF iepId \notin 1..Len(ieps)
             THEN Done("getIEP", actor, iepId, "IEP not found", <<>>)
             ELSE IF ieps[iepId].createdBy # actor
                     /\ actor \notin Range(ieps[iepId].teamMembers)
             THEN Done("getIEP", actor, iepId, "Access denied", <<>>)
             ELSE Done("getIEP", actor, iepId, "ok", ieps[iepId])
  /\ UNCHANGED <<inflight, ieps, progressData, notifications, reports, userProfiles, now>>

(***************************************************************************)
(* Window aggregator and trend bucketizer                                  *)
(***************************************************************************)
periods == 6

TimeRanges == {"week", "month", "quarter", "year", "all"}

\* args.timeRange when the optional argument is left out
NoRange == "undefined"

\* variant: the unrecognised and the absent label are the month
timeRangeMs_defaultMonth(timeRange) ==
  IF timeRange = "week" THEN 7 * DayMs
  ELSE IF timeRange = "quarter" THEN 90 * DayMs
  ELSE IF timeRange = "year" THEN 365 * DayMs
  ELSE 30 * DayMs

timeRangeMs(timeRange) ==
  IF timeRange = "week" THEN 7 * DayMs
  ELSE IF timeRange = "month" THEN 30 * DayMs
  ELSE IF timeRange = "quarter" THEN 90 * DayMs
  ELSE 365 * DayMs

\* variant: Math.floor in place of Math.round
roundPct_floor(a, b) == (100 * a) \div b

\* Math.round((a / b) * 100) for a >= 0, b > 0
roundPct(a, b) == (200 * a + b) \div (2 * b)

\* variant: the cohort of the records the user created
cohort_ownedOnly(userId) ==
  {i \in 1..Len(ieps) : ieps[i].createdBy = userId}

\* the ids kept by the access filter of getIEPAnalytics and calculateTrends
cohort(userId) ==
  {i \in 1..Len(ieps) : ieps[i].createdBy = userId
                          \/ userId \in Range(ieps[i].teamMembers)}

\* the bounds of the period with loop index i
periodStart(i, periodLength, t) == t - ((periods - i) * periodLength)

\* variant: the period ends one period length late
periodEnd_late(i, periodLength, t) == t - ((periods - i - 2) * periodLength)

periodEnd(i, periodLength, t) == t - ((periods - i - 1) * periodLength)

calculateTrends(userId, rangeMs, t) ==
  LET periodLength == rangeMs \div periods
  IN [p \in 1..periods |->
       LET i == p - 1
           allPeriodIEPs == {k \in 1..Len(ieps) :
                               /\ ieps[k].creationTime >= periodStart(i, periodLength, t)
                               /\ ieps[k].creationTime < periodEnd(i, periodLength, t)}
           periodIEPs == {k \in allPeriodIEPs :
                            ieps[k].createdBy = userId
                            \/ userId \in Range(ieps[k].teamMembers)}
       IN [period |-> i + 1,
           date |-> periodStart(i, periodLength, t) \div DayMs,
           iepsCreated |-> Cardinality(periodIEPs),
           activeIEPs |-> Cardinality({k \in periodIEPs :
                                         ieps[k].status = "active"})]]

\* the two tests of the goal loop
goalCompleted_above(progress) == progress > 100

goalCompleted(progress) == progress >= 100

goalInProgress(progress) == ~goalCompleted(progress) /\ progress > 0

\* the two review filters
\* variant: only active records have an upcoming review
upcomingReview_activeOnly(iep, t) ==
  LET reviewDate == parseDate(iep.annualReviewDate)
      thirtyDaysFromNow == t + 30 * DayMs
  IN /\ NumLe(reviewDate, Num(thirtyDaysFromNow)) /\ NumGe(reviewDate, Num(t))
     /\ iep.status = "active"

upcomingReview(iep, t) ==
  LET reviewDate == parseDate(iep.annualReviewDate)
      thirtyDaysFromNow == t + 30 * DayMs
  IN NumLe(reviewDate, Num(thirtyDaysFromNow)) /\ NumGe(reviewDate, Num(t))

\* variant: a record of any status is overdue
overdueReview_anyStatus(iep, t) ==
  LET reviewDate == parseDate(iep.annualReviewDate)
  IN NumLt(reviewDate, Num(t))

overdueReview(iep, t) ==
  LET reviewDate == parseDate(iep.annualReviewDate)
  IN NumLt(reviewDate, Num(t)) /\ iep.status = "active"

\* the value getIEPAnalytics returns for a user that has a profile
analytics(userId, timeRange, t) ==
  LET rangeMs == timeRangeMs(timeRange)
      startTime == t - rangeMs
      filteredIEPs == {i \in cohort(userId) : ieps[i].creationTime >= startTime}
      total == Cardinality(filteredIEPs)
      statusCount(st) == Cardinality({i \in filteredIEPs : ieps[i].status = st})
      \* one pair per goal of each record of the cohort
      goalSlots == UNION {{<<i, k>> : k \in 1..Len(ieps[i].content.goals)} :
                            i \in filteredIEPs}
      progressOf(g) == ieps[g[1]].content.goals[g[2]].progress
      totalGoals == Cardinality(goalSlots)
      completedGoals == Cardinality({g \in goalSlots : goalCompleted(progressOf(g))})
      inProgressGoals == Cardinality({g \in goalSlots : goalInProgress(progressOf(g))})
      upcomingReviews == Cardinality({i \in filteredIEPs : upcomingReview(ieps[i], t)})
      overdueReviews == Cardinality({i \in filteredIEPs : overdueReview(ieps[i], t)})
  IN [overview |->
        [totalIEPs |-> total,
         activeIEPs |-> statusCount("active"),
         draftIEPs |-> statusCount("draft"),
         inReviewIEPs |-> statusCount("in_review"),
         totalGoals |-> totalGoals,
         completedGoals |-> completedGoals,
         inProgressGoals |-> inProgressGoals,
         goalCompletionRate |->
           IF totalGoals > 0 THEN roundPct(completedGoals, totalGoals) ELSE 0],
      statusDistribution |->
        {[status |-> st, count |-> statusCount(st),
          percentage |-> roundPct(statusCount(st), total)] :
           st \in {x \in Statuses : statusCount(x) > 0}},
      compliance |->
        [upcomingReviews |-> upcomingReviews,
         overdueReviews |-> overdueReviews,
         complianceRate |->
           IF total > 0 THEN roundPct(total - overdueReviews, total) ELSE 100],
      trends |-> calculateTrends(userId, rangeMs, t)]

getIEPAnalytics(actor, timeRange) ==
  /\ last' = IF actor = NoUser
             THEN Done("getIEPAnalytics", actor, timeRange, "Not authenticated", <<>>)
             ELSE IF actor \notin userProfiles
             THEN Done("getIEPAnalytics", actor, timeRange, "User profile not found", <<>>)
             ELSE Done("getIEPAnalytics", actor, timeRange, "ok",
                       analytics(actor, timeRange, now))
  /\ UNCHANGED <<inflight, ieps, progressData, notifications, reports, userProfiles, now>>

(***************************************************************************)
(* Report snapshot store                                                   *)
(***************************************************************************)
ReportTypes == {"summary", "compliance", "progress", "detailed"}

\* the optional filters argument: {} when absent, else {the object}; an
\* object is a set of <<key, value>> pairs
FilterArgs == {{}, {{<<"status", "active">>}}}

ReportArgs(reportType, timeRange, filters) ==
  [reportType |-> reportType, timeRange |-> timeRange, filters |-> filters]

\* variant: with a status filter the snapshot counts the active records only
generateReport_filtered(actor, reportType, timeRange, filters) ==
  IF actor = NoUser
  THEN /\ last' = Done("generateReport", actor, ReportArgs(reportType, timeRange, filters),
                       "Not authenticated", <<>>)
       /\ UNCHANGED <<inflight, ieps, progressData, notifications, reports, userProfiles, now>>
  ELSE IF actor \notin userProfiles
  THEN /\ last' = Done("generateReport", actor, ReportArgs(reportType, timeRange, filters),
                       "User profile not found", <<>>)
       /\ UNCHANGED <<inflight, ieps, progressData, notifications, reports, userProfiles, now>>
  ELSE /\ Len(reports) < MaxReports
       /\ reports' = Append(reports,
            [userId |-> actor, reportType |-> reportType, timeRange |-> timeRange,
             filters |-> IF filters = {} THEN {} ELSE CHOOSE f \in filters : TRUE,
             data |-> IF filters = {} THEN analytics(actor, timeRange, now)
                      ELSE [analytics(actor, timeRange, now) EXCEPT
                              !.overview.totalIEPs = @ - analytics(actor, timeRange, now).overview.draftIEPs],
             status |-> "generated", creationTime |-> now])
       /\ last' = Done("generateReport", actor, ReportArgs(reportType, timeRange, filters),
                       "ok", Len(reports) + 1)
       /\ UNCHANGED <<inflight, ieps, progressData, notifications, userProfiles, now>>

\* variant: a generation also brings the caller's earlier snapshots up to date
generateReport_refreshing(actor, reportType, timeRange, filters) ==
  IF actor = NoUser
  THEN /\ last' = Done("generateReport", actor, ReportArgs(reportType, timeRange, filters),
                       "Not authenticated", <<>>)
       /\ UNCHANGED <<inflight, ieps, progressData, notifications, reports, userProfiles, now>>
  ELSE IF actor \notin userProfiles
  THEN /\ last' = Done("generateReport", actor, ReportArgs(reportType, timeRange, filters),
                       "User profile not found", <<>>)
       /\ UNCHANGED <<inflight, ieps, progressData, notifications, reports, userProfiles, now>>
  ELSE /\ Len(reports) < MaxReports
       /\ reports' = Append(
            [i \in 1..Len(reports) |->
               IF reports[i].userId = actor
               THEN [reports[i] EXCEPT !.data = analytics(actor, reports[i].timeRange, now)]
               ELSE reports[i]],
            [userId |-> actor, reportType |-> reportType, timeRange |-> timeRange,
             filters |-> IF filters = {} THEN {} ELSE CHOOSE f \in filters : TRUE,
             data |-> analytics(actor, timeRange, now),
             status |-> "generated", creationTime |-> now])
       /\ last' = Done("generateReport", actor, ReportArgs(reportType, timeRange, filters),
                       "ok", Len(reports) + 1)
       /\ UNCHANGED <<inflight, ieps, progressData, notifications, userProfiles, now>>

generateReport(actor, reportType, timeRange, filters) ==
  IF actor = NoUser
  THEN /\ last' = Done("generateReport", actor, ReportArgs(reportType, timeRange, filters),
                       "Not authenticated", <<>>)
       /\ UNCHANGED <<inflight, ieps, progressData, notifications, reports, userProfiles, now>>
  ELSE IF actor \notin userProfiles
  THEN /\ last' = Done("generateReport", actor, ReportArgs(reportType, timeRange, filters),
                       "User profile not found", <<>>)
       /\ UNCHANGED <<inflight, ieps, progressData, notifications, reports, userProfiles, now>>
  ELSE /\ Len(reports) < MaxReports
       /\ reports' = Append(reports,
            [userId |-> actor, reportType |-> reportType, timeRange |-> timeRange,
             filters |-> IF filters = {} THEN {} ELSE CHOOSE f \in filters : TRUE,
             data |-> analytics(actor, timeRange, now),
             status |-> "generated", creationTime |-> now])
       /\ last' = Done("generateReport", actor, ReportArgs(reportType, timeRange, filters),
                       "ok", Len(reports) + 1)
       /\ UNCHANGED <<inflight, ieps, progressData, notifications, userProfiles, now>>

(***************************************************************************)
(* Listing notifications and report snapshots.  A document is identified   *)
(* by its position in the table, which is the order of insertion; the      *)
(* by_user_id index read with order("desc") gives the caller's documents   *)
(* newest first.                                                           *)
(***************************************************************************)
DefaultLimit == 20

ReportsPage == 20

Reverse(seq) == [i \in 1..Len(seq) |-> seq[Len(seq) + 1 - i]]

take(seq, n) == SubSeq(seq, 1, IF n < Len(seq) THEN n ELSE Len(seq))

byUserDesc(store, userId) ==
  Reverse(SelectIdx(1, Len(store), {i \in 1..Len(store) : store[i].userId = userId}))

\* the optional limit argument: {} when absent, else {n}
LimitArgs ==
  {{}} \cup {{n} : n \in {0, 1, 2, DefaultLimit, DefaultLimit + 1, DefaultLimit + 5}}

\* args.limit || 20
limitOrDefault(limit) ==
  IF limit = {} THEN DefaultLimit
  ELSE LET n == CHOOSE x \in limit : TRUE
       IN IF n = 0 THEN DefaultLimit ELSE n

getNotifications(actor, limit) ==
  /\ last' = IF actor = NoUser
             THEN Done("getNotifications", actor, limit, "Not authenticated", <<>>)
             ELSE Done("getNotifications", actor, limit, "ok",
                       take(byUserDesc(notifications, actor), limitOrDefault(limit)))
  /\ UNCHANGED <<inflight, ieps, progressData, notifications, reports, userProfiles, now>>

\* variant: the page is taken from the whole table
getReports_everyone(actor) ==
  /\ last' = IF actor = NoUser
             THEN Done("getReports", actor, <<>>, "Not authenticated", <<>>)
             ELSE Done("getReports", actor, <<>>, "ok",
                       take(Reverse(SelectIdx(1, Len(reports), 1..Len(reports))),
                            ReportsPage))
  /\ UNCHANGED <<inflight, ieps, progressData, notifications, reports, userProfiles, now>>

getReports(actor) ==
  /\ last' = IF actor = NoUser
             THEN Done("getReports", actor, <<>>, "Not authenticated", <<>>)
             ELSE Done("getReports", actor, <<>>, "ok",
                       take(byUserDesc(reports, actor), ReportsPage))
  /\ UNCHANGED <<inflight, ieps, progressData, notifications, reports, userProfiles, now>>

getReport(actor, reportId) ==
  /\ last' = IF actor = NoUser
             THEN Done("getReport", actor, reportId, "Not authenticated", <<>>)
             ELSE IF \/ reportId \notin 1..Len(reports)
                     \/ reports[reportId].userId # actor
             THEN Done("getReport", actor, reportId,
                       "Report not found or access denied", <<>>)
             ELSE Done("getReport", actor, reportId, "ok", <<reports[reportId]>>)
  /\ UNCHANGED <<inflight, ieps, progressData, notifications, reports, userProfiles, now>>

(***************************************************************************)
(* Marking notifications read                                              *)
(***************************************************************************)
\* variant: the patch sets read and leaves readAt alone
markNotificationRead_noReadAt(actor, notificationId) ==
  IF actor = NoUser
  THEN /\ last' = Done("markNotificationRead", actor, notificationId,
                       "Not authenticated", <<>>)
       /\ UNCHANGED <<inflight, ieps, progressData, notifications, reports, userProfiles, now>>
  ELSE IF \/ notificationId \notin 1..Len(notifications)
          \/ notifications[notificationId].userId # actor
  THEN /\ last' = Done("markNotificationRead", actor, notificationId,
                       "Notification not found or access denied", <<>>)
       /\ UNCHANGED <<inflight, ieps, progressData, notifications, reports, userProfiles, now>>
  ELSE /\ notifications' = [notifications EXCEPT
            ![notificationId] = [@ EXCEPT !.read = TRUE]]
       /\ last' = Done("markNotificationRead", actor, notificationId, "ok", <<>>)
       /\ UNCHANGED <<inflight, ieps, progressData, reports, userProfiles, now>>

\* variant: the recipient is not compared with the caller
markNotificationRead_noOwnerCheck(actor, notificationId) ==
  IF actor = NoUser
  THEN /\ last' = Done("markNotificationRead", actor, notificationId,
                       "Not authenticated", <<>>)
       /\ UNCHANGED <<inflight, ieps, progressData, notifications, reports, userProfiles, now>>
  ELSE IF notificationId \notin 1..Len(notifications)
  THEN /\ last' = Done("markNotificationRead", actor, notificationId,
                       "Notification not found or access denied", <<>>)
       /\ UNCHANGED <<inflight, ieps, progressData, notifications, reports, userProfiles, now>>
  ELSE /\ notifications' = [notifications EXCEPT
            ![notificationId] = [@ EXCEPT !.read = TRUE, !.readAt = {now}]]
       /\ last' = Done("markNotificationRead", actor, notificationId, "ok", <<>>)
       /\ UNCHANGED <<inflight, ieps, progressData, reports, userProfiles, now>>

markNotificationRead(actor, notificationId) ==
  IF actor = NoUser
  THEN /\ last' = Done("markNotificationRead", actor, notificationId,
                       "Not authenticated", <<>>)
       /\ UNCHANGED <<inflight, ieps, progressData, notifications, reports, userProfiles, now>>
  ELSE IF \/ notificationId \notin 1..Len(notifications)
          \/ notifications[notificationId].userId # actor
  THEN /\ last' = Done("markNotificationRead", actor, notificationId,
                       "Notification not found or access denied", <<>>)
       /\ UNCHANGED <<inflight, ieps, progressData, notifications, reports, userProfiles, now>>
  ELSE /\ notifications' = [notifications EXCEPT
            ![notificationId] = [@ EXCEPT !.read = TRUE, !.readAt = {now}]]
       /\ last' = Done("markNotificationRead", actor, notificationId, "ok", <<>>)
       /\ UNCHANGED <<inflight, ieps, progressData, reports, userProfiles, now>>

\* variant: the patch sets read and leaves readAt alone
markAllNotificationsRead_noReadAt(actor) ==
  IF actor = NoUser
  THEN /\ last' = Done("markAllNotificationsRead", actor, <<>>,
                       "Not authenticated", <<>>)
       /\ UNCHANGED <<inflight, ieps, progressData, notifications, reports, userProfiles, now>>
  ELSE /\ notifications' =
            [i \in 1..Len(notifications) |->
               IF notifications[i].userId = actor /\ notifications[i].read = FALSE
               THEN [notifications[i] EXCEPT !.read = TRUE]
               ELSE notifications[i]]
       /\ last' = Done("markAllNotificationsRead", actor, <<>>, "ok", <<>>)
       /\ UNCHANGED <<inflight, ieps, progressData, reports, userProfiles, now>>

\* variant: the query is not filtered on read, so read ones are patched again
markAllNotificationsRead_noReadFilter(actor) ==
  IF actor = NoUser
  THEN /\ last' = Done("markAllNotificationsRead", actor, <<>>,
                       "Not authenticated", <<>>)
       /\ UNCHANGED <<inflight, ieps, progressData, notifications, reports, userProfiles, now>>
  ELSE /\ notifications' =
            [i \in 1..Len(notifications) |->
               IF notifications[i].userId = actor
               THEN [notifications[i] EXCEPT !.read = TRUE, !.readAt = {now}]
               ELSE notifications[i]]
       /\ last' = Done("markAllNotificationsRead", actor, <<>>, "ok", <<>>)
       /\ UNCHANGED <<inflight, ieps, progressData, reports, userProfiles, now>>

markAllNotificationsRead(actor) ==
  IF actor = NoUser
  THEN /\ last' = Done("markAllNotificationsRead", actor, <<>>,
                       "Not authenticated", <<>>)
       /\ UNCHANGED <<inflight, ieps, progressData, notifications, reports, userProfiles, now>>
  ELSE /\ notifications' =
            [i \in 1..Len(notifications) |->
               IF notifications[i].userId = actor /\ notifications[i].read = FALSE
               THEN [notifications[i] EXCEPT !.read = TRUE, !.readAt = {now}]
               ELSE notifications[i]]
       /\ last' = Done("markAllNotificationsRead", actor, <<>>, "ok", <<>>)
       /\ UNCHANGED <<inflight, ieps, progressData, reports, userProfiles, now>>

\* the rows getUnreadCount and markAllNotificationsRead collect
unreadNotifications(userId) ==
  {i \in 1..Len(notifications) :
     notifications[i].userId = userId /\ notifications[i].read = FALSE}

getUnreadCount(actor) ==
  /\ last' = IF actor = NoUser
             THEN Done("getUnreadCount", actor, <<>>, "Not authenticated", 0)
             ELSE Done("getUnreadCount", actor, <<>>, "ok",
                       Cardinality(unreadNotifications(actor)))
  /\ UNCHANGED <<inflight, ieps, progressData, notifications, reports, userProfiles, now>>

(***************************************************************************)
(* Record stores the scanner is run on.  The case records are written by   *)
(* record-editing operations and read by the scanner; their fields take    *)
(* every value the schema allows.                                          *)
(***************************************************************************)
G1 == [id |-> "g1", area |-> "Reading", progress |-> 40]
G2 == [id |-> "g2", area |-> "Math", progress |-> 100]

Iep(studentName, createdBy, teamMembers, status, annualReviewDate, goals, created) ==
  [studentName |-> studentName, createdBy |-> createdBy,
   teamMembers |-> teamMembers, status |-> status,
   annualReviewDate |-> annualReviewDate, disability |-> "autism",
   grade |-> "3", content |-> [goals |-> goals, services |-> <<>>],
   lastModifiedBy |-> createdBy, creationTime |-> created]

(***************************************************************************)
(* Record editing                                                          *)
(***************************************************************************)
createIEP(actor, studentName, annualReviewDate) ==
  IF actor = NoUser
  THEN /\ last' = Done("createIEP", actor, studentName, "Not authenticated", <<>>)
       /\ UNCHANGED <<inflight, ieps, progressData, notifications, reports, userProfiles, now>>
  ELSE /\ Len(ieps) < MaxRecords
       /\ ieps' = Append(ieps, Iep(studentName, actor, <<actor>>, "draft",
                                   annualReviewDate, <<>>, now))
       /\ last' = Done("createIEP", actor, studentName, "ok", Len(ieps) + 1)
       /\ UNCHANGED <<inflight, progressData, notifications, reports, userProfiles, now>>

\* args.updates: each optional field is {} when absent, else {value}; a
\* content value is a record with some of the fields of content
Updates(studentName, status, content) ==
  [studentName |-> studentName, status |-> status, content |-> content]

\* the document after ctx.db.patch(args.iepId, updateData)
patched(iep, userId, updates) ==
  LET named == IF updates.studentName = {} THEN iep.studentName
               ELSE CHOOSE x \in updates.studentName : TRUE
      stated == IF updates.status = {} THEN iep.status
                ELSE CHOOSE x \in updates.status : TRUE
      merged == IF updates.content = {} THEN iep.content
                ELSE LET c == CHOOSE x \in updates.content : TRUE
                     IN [f \in DOMAIN iep.content |->
                           IF f \in DOMAIN c THEN c[f] ELSE iep.content[f]]
  IN [iep EXCEPT !.lastModifiedBy = userId, !.studentName = named,
                 !.status = stated, !.content = merged]

\* variant: no check that the caller may edit the record
updateIEP_noAccessCheck(actor, iepId, updates) ==
  IF actor = NoUser
  THEN /\ last' = Done("updateIEP", actor, iepId, "Not authenticated", <<>>)
       /\ UNCHANGED <<inflight, ieps, progressData, notifications, reports, userProfiles, now>>
  ELSE IF iepId \notin 1..Len(ieps)
  THEN /\ last' = Done("updateIEP", actor, iepId, "IEP not found", <<>>)
       /\ UNCHANGED <<inflight, ieps, progressData, notifications, reports, userProfiles, now>>
  ELSE /\ ieps' = [ieps EXCEPT ![iepId] = patched(@, actor, updates)]
       /\ last' = Done("updateIEP", actor, iepId, "ok", iepId)
       /\ UNCHANGED <<inflight, progressData, notifications, reports, userProfiles, now>>

updateIEP(actor, iepId, updates) ==
  IF actor = NoUser
  THEN /\ last' = Done("updateIEP", actor, iepId, "Not authenticated", <<>>)
       /\ UNCHANGED <<inflight, ieps, progressData, notifications, reports, userProfiles, now>>
  ELSE IF iepId \notin 1..Len(ieps)
  THEN /\ last' = Done("updateIEP", actor, iepId, "IEP not found", <<>>)
       /\ UNCHANGED <<inflight, ieps, progressData, notifications, reports, userProfiles, now>>
  ELSE IF ieps[iepId].createdBy # actor /\ actor \notin Range(ieps[iepId].teamMembers)
  THEN /\ last' = Done("updateIEP", actor, iepId, "Access denied", <<>>)
       /\ UNCHANGED <<inflight, ieps, progressData, notifications, reports, userProfiles, now>>
  ELSE /\ ieps' = [ieps EXCEPT ![iepId] = patched(@, actor, updates)]
       /\ last' = Done("updateIEP", actor, iepId, "ok", iepId)
       /\ UNCHANGED <<inflight, progressData, notifications, reports, userProfiles, now>>

\* review dates around the three thresholds of the scanner, and a string
\* that is no date
ReviewDates ==
  {DateString(StartTime + d) :
     d \in {-1, 0, 7 * DayMs, 7 * DayMs + 1, 30 * DayMs, 30 * DayMs + 1}}
  \cup {BadDateString}

ScanRecords ==
  {Iep("Ann", "u1", <<"u1">>, s, d, <<G1, G2>>, StartTime - DayMs) :
     s \in Statuses, d \in ReviewDates}

\* a second record, owned by u2, that u1 reaches as a team member only
TeamRecord ==
  Iep("Bob", "u2", <<"u2", "u1">>, "active",
      DateString(StartTime + 7 * DayMs + 1), <<>>, StartTime - DayMs)

ScanStores ==
  {<<a>> : a \in ScanRecords} \cup {<<a, TeamRecord>> : a \in ScanRecords}

Idle == [op |-> "init", actor |-> NoUser, args |-> <<>>, outcome |-> "ok",
         ret |-> <<>>, before |-> 0]

InitScan ==
  /\ ieps \in ScanStores
  /\ progressData = <<>>
  /\ notifications = <<>>
  /\ reports = <<>>
  /\ inflight = NoInflight
  /\ userProfiles = Users
  /\ now = StartTime
  /\ last = Idle

NextScan ==
  \/ Tick
  \/ \E actor \in Actors : checkComplianceAlerts(actor)

SpecScan == InitScan /\ [][NextScan]_vars

(***************************************************************************)
(* Stores of two records with different owners and teams, one of which may *)
(* carry a review date that is no date, and a table of progress            *)
(* observations that grows.                                                *)
(***************************************************************************)
GoalRecordsA ==
  {Iep("Ann", "u1", <<"u1">>, "active", d, <<G1, G2>>, StartTime - DayMs) :
     d \in {DateString(StartTime - 1), DateString(StartTime + 7 * DayMs),
            BadDateString}}

GoalRecordsB ==
  {Iep("Bob", "u2", <<"u2", "u1">>, "active", d, <<G1>>, StartTime - DayMs) :
     d \in {BadDateString, DateString(StartTime)}}

GoalStores ==
  {<<a>> : a \in GoalRecordsA}
  \cup {<<b, a>> : b \in GoalRecordsB, a \in GoalRecordsA}
  \cup {<<a, b>> : b \in GoalRecordsB, a \in GoalRecordsA}

\* observations already in the table: one for goal g1 of the first record,
\* made 30 days before StartTime or one hour earlier
OldProgress ==
  {<<[iepId |-> 1, goalId |-> "g1", recordedBy |-> "u1",
      creationTime |-> StartTime - 30 * DayMs - e]>> : e \in {0, 1}}

InitGoals ==
  /\ ieps \in GoalStores
  /\ progressData \in OldProgress
  /\ notifications = <<>>
  /\ reports = <<>>
  /\ inflight = NoInflight
  /\ userProfiles = Users
  /\ now = StartTime
  /\ last = Idle

NextGoals ==
  \/ Tick
  \/ /\ Len(notifications) < MaxStored
     /\ \E actor \in Actors : checkComplianceAlerts(actor)
  \/ \E actor \in {"u1", NoUser}, iepId \in 1..Len(ieps), goalId \in GoalIds :
       addProgressData(actor, iepId, goalId)

SpecGoals == InitGoals /\ [][NextGoals]_vars

(***************************************************************************)
(* Scans that complete and scans that fail part-way, over the same stores. *)
(***************************************************************************)
NextAbort ==
  \/ Tick
  \/ /\ Len(notifications) < MaxStored
     /\ \E actor \in Actors : checkComplianceAlerts(actor)
  \/ \E actor \in Users, k \in 1..2, j \in 0..3 :
       checkComplianceAlertsAborted(actor, k, j)

SpecAbort == InitGoals /\ [][NextAbort]_vars

(***************************************************************************)
(* Two concurrent scans and read marks over a store of two records; the    *)
(* notification table starts with what an earlier scan of u2 left.         *)
(***************************************************************************)
ConcStores ==
  {<<Iep("Ann", "u1", <<"u1">>, "active", DateString(StartTime - 1), g,
         StartTime - DayMs), TeamRecord>> : g \in {<<>>, <<G1>>}}

InitConc ==
  /\ ieps \in ConcStores
  /\ progressData = <<>>
  /\ notifications = scanAlerts("u2", StartTime)
  /\ reports = <<>>
  /\ inflight = NoInflight
  /\ userProfiles = Users
  /\ now = StartTime
  /\ last = Idle

NextConc ==
  \/ \E slot \in Slots, actor \in Users : beginScan(slot, actor)
  \/ \E slot \in Slots : commitScan(slot)
  \/ \E actor \in Users, id \in 1..MaxNotifications : markNotificationRead(actor, id)
  \/ \E actor \in Users : markAllNotificationsRead(actor)

SpecConc == InitConc /\ [][NextConc]_vars

(***************************************************************************)
(* Stores of two records whose owner and team take every value, read by    *)
(* the listing, the fetch, the aggregator and the scanner.                 *)
(***************************************************************************)
Teams == {<<>>, <<"u1">>, <<"u2">>, <<"u1", "u2">>}

AccessStores ==
  {<<Iep("Ann", o1, t1, "active", DateString(StartTime + DayMs), <<>>,
         StartTime - DayMs),
     Iep("Bob", o2, t2, "active", DateString(StartTime + DayMs), <<>>,
         StartTime - c * DayMs)>> :
     o1 \in Users, t1 \in Teams, o2 \in Users, t2 \in Teams, c \in {1, 8}}

InitAccess ==
  /\ ieps \in AccessStores
  /\ progressData = <<>>
  /\ notifications = <<>>
  /\ reports = <<>>
  /\ inflight = NoInflight
  /\ userProfiles \in {Users, {"u1"}}
  /\ now = StartTime
  /\ last = Idle

NextAccess ==
  \/ \E actor \in Actors : getUserIEPs(actor)
  \/ \E actor \in Actors, iepId \in 1..(Len(ieps) + 1) : getIEP(actor, iepId)
  \/ \E actor \in Actors, timeRange \in TimeRanges : getIEPAnalytics(actor, timeRange)
  \/ /\ Len(notifications) < MaxStored
     /\ \E actor \in Actors : checkComplianceAlerts(actor)

SpecAccess == InitAccess /\ [][NextAccess]_vars

(***************************************************************************)
(* The notification sink and the report store under every operation that   *)
(* writes them, over one record that both users reach.                     *)
(***************************************************************************)
SinkStores ==
  {<<Iep("Ann", "u1", <<"u1", "u2">>, "active", DateString(StartTime - 1), <<>>,
         StartTime - DayMs)>>}

InitSink ==
  /\ ieps \in SinkStores
  /\ progressData = <<>>
  /\ notifications = <<>>
  /\ reports = <<>>
  /\ inflight = NoInflight
  /\ userProfiles = Users
  /\ now = StartTime
  /\ last = Idle

NextSink ==
  \/ /\ Len(notifications) < MaxStored
     /\ \E actor \in Actors : checkComplianceAlerts(actor)
  \/ \E actor \in Actors, id \in 1..(Len(notifications) + 1) :
       markNotificationRead(actor, id)
  \/ \E actor \in Actors : markAllNotificationsRead(actor)
  \/ \E actor \in Actors : generateReport(actor, "summary", "month", {})
  \/ \E actor \in Actors : getUserIEPs(actor)
  \/ \E actor \in Actors, iepId \in 1..(Len(ieps) + 1) : getIEP(actor, iepId)

SpecSink == InitSink /\ [][NextSink]_vars

(***************************************************************************)
(* Stores the aggregator is run on: records that differ in status, in the  *)
(* progress of their goals, in their review date and in the time they were *)
(* created, and the cohort of ten records of the compliance example.       *)
(***************************************************************************)
Goal(progress) == [id |-> "g1", area |-> "Reading", progress |-> progress]

\* goal.progress is any number: the schema sets no range
ProgressValues == {0 - 5, 0, 40, 100, 150}

GoalLists ==
  {<<>>, <<Goal(100), Goal(100), Goal(40), Goal(0)>>}
  \cup {<<Goal(p)>> : p \in ProgressValues}
  \cup {<<Goal(p), Goal(q)>> : p \in ProgressValues, q \in ProgressValues}

StatusStores ==
  {<<Iep("Ann", "u1", <<"u1">>, s1, DateString(StartTime + DayMs), <<>>, StartTime - DayMs),
     Iep("Bob", "u1", <<"u1">>, s2, DateString(StartTime + DayMs), <<>>, StartTime - DayMs),
     Iep("Cy", "u2", <<"u2", "u1">>, s3, DateString(StartTime + DayMs), <<>>, StartTime - DayMs)>> :
       s1 \in Statuses, s2 \in Statuses, s3 \in Statuses}

ProgressStores ==
  {<<Iep("Ann", "u1", <<"u1">>, "active", DateString(StartTime + DayMs), g, StartTime - DayMs),
     Iep("Bob", "u2", <<"u2", "u1">>, "draft", DateString(StartTime + DayMs), <<G1>>,
         StartTime - 8 * DayMs)>> : g \in GoalLists}

AggregateDates ==
  {DateString(StartTime + d) : d \in {0 - 1, 0, 1, 30 * DayMs, 30 * DayMs + 1}}
  \cup {BadDateString}

DateStores ==
  {<<Iep("Ann", "u1", <<"u1">>, s1, d1, <<>>, StartTime - DayMs),
     Iep("Bob", "u1", <<"u1">>, s2, d2, <<>>, StartTime - DayMs)>> :
       s1 \in {"active", "draft"}, s2 \in {"active", "expired"},
       d1 \in AggregateDates, d2 \in AggregateDates}

\* creation times at the start of each window, one hour to either side of
\* it, at the inner bucket bounds of the week, and at the time of the call
CreationTimes ==
  {StartTime - d : d \in {0, 1, 28, 29, 7 * DayMs - 1, 7 * DayMs, 7 * DayMs + 1,
                          30 * DayMs, 30 * DayMs + 1, 90 * DayMs, 90 * DayMs + 1,
                          365 * DayMs, 365 * DayMs + 1}}

CreationStores ==
  {<<Iep("Ann", "u1", <<"u1">>, "active", DateString(StartTime + DayMs), <<>>, c1),
     Iep("Bob", "u2", <<"u2", "u1">>, "draft", DateString(StartTime + DayMs), <<>>, c2)>> :
       c1 \in CreationTimes, c2 \in CreationTimes}

\* ten records of u1: three active, two of them with a review due
\* yesterday and one with a review due in three days
ExampleStore ==
  [i \in 1..10 |->
     Iep("S", "u1", <<"u1">>, IF i <= 3 THEN "active" ELSE "draft",
         IF i <= 2 THEN DateString(StartTime - DayMs)
         ELSE IF i = 3 THEN DateString(StartTime + 3 * DayMs)
         ELSE DateString(StartTime + 60 * DayMs),
         <<>>, StartTime - DayMs)]

AggregateStores ==
  StatusStores \cup ProgressStores \cup DateStores \cup CreationStores
  \cup {ExampleStore, <<>>}

InitAggregate ==
  /\ ieps \in AggregateStores
  /\ progressData = <<>>
  /\ notifications = <<>>
  /\ reports = <<>>
  /\ inflight = NoInflight
  /\ userProfiles = Users
  /\ now = StartTime
  /\ last = Idle

NextAggregate ==
  \/ Tick
  \/ \E actor \in Actors, timeRange \in TimeRanges \cup {NoRange} :
       getIEPAnalytics(actor, timeRange)

SpecAggregate == InitAggregate /\ [][NextAggregate]_vars

(***************************************************************************)
(* Notifications of two recipients, created by scans of one shared record  *)
(* whose review is overdue, and read marks set at different times.         *)
(***************************************************************************)
InboxStores ==
  {<<Iep("Ann", "u1", <<"u1", "u2">>, "active", DateString(StartTime - d), <<>>,
         StartTime - DayMs)>> : d \in {1, DayMs}}

InitInbox ==
  /\ ieps \in InboxStores
  /\ progressData = <<>>
  /\ notifications = <<>>
  /\ reports = <<>>
  /\ inflight = NoInflight
  /\ userProfiles = Users
  /\ now = StartTime
  /\ last = Idle

NextInbox ==
  \/ Tick
  \/ /\ Len(notifications) <= MaxStored
     /\ \E actor \in Users : checkComplianceAlerts(actor)
  \/ \E actor \in Actors, id \in 1..(MaxStored + 2) : markNotificationRead(actor, id)
  \/ \E actor \in Actors : markAllNotificationsRead(actor)
  \/ \E actor \in Actors : getUnreadCount(actor)

SpecInbox == InitInbox /\ [][NextInbox]_vars

(***************************************************************************)
(* The notification store under every operation that writes it: scans,     *)
(* meeting reminders and read marks, over a record whose creator is on its *)
(* team and one whose creator is not.                                      *)
(***************************************************************************)
LifecycleStores ==
  {<<Iep("Ann", "u1", t, "active", DateString(StartTime - 1), <<>>, StartTime - DayMs)>> :
     t \in {<<"u1", "u2">>, <<"u2">>}}

InitLifecycle ==
  /\ ieps \in LifecycleStores
  /\ progressData = <<>>
  /\ notifications = <<>>
  /\ reports = <<>>
  /\ inflight = NoInflight
  /\ userProfiles = Users
  /\ now = StartTime
  /\ last = Idle

NextLifecycle ==
  \/ /\ Len(notifications) <= MaxStored
     /\ \E actor \in Actors : checkComplianceAlerts(actor)
  \/ /\ Len(notifications) <= MaxStored
     /\ \E actor \in Actors, iepId \in 1..2, meetingDate \in MeetingDates :
          sendMeetingReminder(actor, iepId, meetingDate)
  \/ \E actor \in Actors, id \in 1..(MaxStored + 2) : markNotificationRead(actor, id)
  \/ \E actor \in Actors : markAllNotificationsRead(actor)

SpecLifecycle == InitLifecycle /\ [][NextLifecycle]_vars

(***************************************************************************)
(* Tables longer than a page: the alerts of repeated scans of one overdue  *)
(* record and the snapshots of repeated report generations, all but two of *)
(* them of u1, and the same tables when they are short.                    *)
(***************************************************************************)
LongTable == DefaultLimit + 3

PageOwner(i) == IF i = 3 \/ i = DefaultLimit + 2 THEN "u2" ELSE "u1"

NotificationTable(n) ==
  [i \in 1..n |->
     IF i % 2 = 0
     THEN [overdueAlert(1, PageOwner(i)) EXCEPT !.read = TRUE, !.readAt = {StartTime}]
     ELSE overdueAlert(1, PageOwner(i))]

ReportTable(n) ==
  [i \in 1..n |->
     [userId |-> PageOwner(i), reportType |-> "summary", timeRange |-> "month",
      filters |-> {}, data |-> analytics(PageOwner(i), "month", StartTime),
      status |-> "generated", creationTime |-> StartTime]]

InitPages ==
  /\ ieps \in SinkStores
  /\ progressData = <<>>
  /\ notifications \in {NotificationTable(n) : n \in {0, 4, LongTable}}
  /\ reports \in {ReportTable(n) : n \in {0, 4, LongTable}}
  /\ inflight = NoInflight
  /\ userProfiles = Users
  /\ now = StartTime
  /\ last = Idle

NextPages ==
  \/ \E actor \in Actors, limit \in LimitArgs : getNotifications(actor, limit)
  \/ \E actor \in Actors : getReports(actor)
  \/ \E actor \in Actors, reportId \in {1, 3, 4, 5, LongTable, LongTable + 1} :
       getReport(actor, reportId)

SpecPages == InitPages /\ [][NextPages]_vars

(***************************************************************************)
(* Report snapshots taken while the record they summarise is edited and    *)
(* notifications are created.                                              *)
(***************************************************************************)
ReportedStores ==
  {<<Iep("Ann", "u1", <<"u1", "u2">>, "draft", DateString(StartTime + DayMs), <<>>,
         StartTime - DayMs)>>}

ReportedUpdates ==
  {Updates({}, {"active"}, {}), Updates({}, {}, {[goals |-> <<G2>>]})}

InitReports ==
  /\ ieps \in ReportedStores
  /\ progressData = <<>>
  /\ notifications = <<>>
  /\ reports = <<>>
  /\ inflight = NoInflight
  /\ userProfiles \in {Users, {"u1"}}
  /\ now = StartTime
  /\ last = Idle

NextReports ==
  \/ \E actor \in Actors : generateReport(actor, "summary", "month", {})
  \/ \E actor \in {"u1", NoUser}, updates \in ReportedUpdates : updateIEP(actor, 1, updates)
  \/ /\ Len(notifications) < MaxStored
     /\ \E actor \in Users : checkComplianceAlerts(actor)
  \/ \E actor \in Users : getReports(actor)
  \/ \E actor \in Users, reportId \in 1..MaxReports : getReport(actor, reportId)

SpecReports == InitReports /\ [][NextReports]_vars

(***************************************************************************)
(* Every operation of the notification and analytics modules over one      *)
(* record with a progress observation, next to the edits of that record.   *)
(***************************************************************************)
InitCore ==
  /\ ieps \in SinkStores
  /\ progressData \in OldProgress
  /\ notifications = <<>>
  /\ reports = <<>>
  /\ inflight = NoInflight
  /\ userProfiles = Users
  /\ now = StartTime
  /\ last = Idle

NextCore ==
  \/ \E actor \in {"u1", NoUser} : getIEPAnalytics(actor, "month")
  \/ /\ Len(notifications) < MaxStored
     /\ \E actor \in {"u1", NoUser} : checkComplianceAlerts(actor)
  \/ /\ Len(notifications) < MaxStored
     /\ \E actor \in {"u1", NoUser} : sendMeetingReminder(actor, 1, "2026-02-01")
  \/ \E actor \in {"u1", NoUser} : getNotifications(actor, {})
  \/ \E actor \in {"u1", NoUser} : getUnreadCount(actor)
  \/ \E actor \in {"u1", NoUser}, id \in 1..MaxStored : markNotificationRead(actor, id)
  \/ \E actor \in {"u1", NoUser} : markAllNotificationsRead(actor)
  \/ \E actor \in {"u1", NoUser} : generateReport(actor, "summary", "month", {})
  \/ \E actor \in {"u1", NoUser} : getReports(actor)
  \/ \E actor \in {"u1", NoUser} : getReport(actor, 1)
  \/ \E actor \in {"u1", NoUser} : updateIEP(actor, 1, Updates({}, {"expired"}, {}))

SpecCore == InitCore /\ [][NextCore]_vars

(***************************************************************************)
(* Report generations that differ in report type, time range and filters,  *)
(* over one store at one clock value.                                      *)
(***************************************************************************)
FilteredStores ==
  {<<Iep("Ann", "u1", <<"u1", "u2">>, "active", DateString(StartTime + DayMs), <<g>>,
         StartTime - DayMs),
     Iep("Bob", "u1", <<"u1">>, "draft", DateString(StartTime - DayMs), <<>>,
         StartTime - 8 * DayMs)>> : g \in {G1, G2}}

InitFilters ==
  /\ ieps \in FilteredStores
  /\ progressData = <<>>
  /\ notifications = <<>>
  /\ reports = <<>>
  /\ inflight = NoInflight
  /\ userProfiles = Users
  /\ now = StartTime
  /\ last = Idle

NextFilters ==
  \E actor \in Actors, reportType \in {"summary", "compliance"},
     timeRange \in {"week", "year"}, filters \in FilterArgs :
       generateReport(actor, reportType, timeRange, filters)

SpecFilters == InitFilters /\ [][NextFilters]_vars

(***************************************************************************)
(* Records created while the clock runs, one of them activated, and the    *)
(* aggregation over them.                                                  *)
(***************************************************************************)
InitCreated ==
  /\ ieps = <<>>
  /\ progressData = <<>>
  /\ notifications = <<>>
  /\ reports = <<>>
  /\ inflight = NoInflight
  /\ userProfiles = Users
  /\ now = StartTime
  /\ last = Idle

NextCreated ==
  \/ Tick
  \/ \E actor \in Actors : createIEP(actor, "Ann", DateString(StartTime + DayMs))
  \/ \E iepId \in 1..MaxRecords : updateIEP("u1", iepId, Updates({}, {"active"}, {}))
  \/ \E actor \in Actors, timeRange \in {"week", NoRange} :
       getIEPAnalytics(actor, timeRange)

SpecCreated == InitCreated /\ [][NextCreated]_vars

(***************************************************************************)
(* Scans over a record of any status and review date next to a draft       *)
(* record, due in three days, that was created before the last week.       *)
(***************************************************************************)
EarlierRecord ==
  Iep("Bob", "u1", <<"u1">>, "draft", DateString(StartTime + 3 * DayMs), <<>>,
      StartTime - 8 * DayMs)

InitAgree ==
  /\ ieps \in {<<a, EarlierRecord>> : a \in ScanRecords}
  /\ progressData = <<>>
  /\ notifications = <<>>
  /\ reports = <<>>
  /\ inflight = NoInflight
  /\ userProfiles = Users
  /\ now = StartTime
  /\ last = Idle

NextAgree ==
  \/ Tick
  \/ /\ notifications = <<>>
     /\ \E actor \in Actors : checkComplianceAlerts(actor)
  \/ \E actor \in Users, timeRange \in {"week", "year"} : getIEPAnalytics(actor, timeRange)

SpecAgree == InitAgree /\ [][NextAgree]_vars

(***************************************************************************)
(* Records created and edited by both users, starting from no record.      *)
(***************************************************************************)
EditUpdates ==
  {Updates({}, {"active"}, {}),
   Updates({"Zed"}, {}, {[goals |-> <<G2>>]})}

InitEdits ==
  /\ ieps = <<>>
  /\ progressData = <<>>
  /\ notifications = <<>>
  /\ reports = <<>>
  /\ inflight = NoInflight
  /\ userProfiles = Users
  /\ now = StartTime
  /\ last = Idle

NextEdits ==
  \/ \E actor \in Actors : createIEP(actor, "Ann", DateString(StartTime + DayMs))
  \/ \E actor \in Actors, iepId \in 1..(MaxRecords + 1), updates \in EditUpdates :
       updateIEP(actor, iepId, updates)

SpecEdits == InitEdits /\ [][NextEdits]_vars

(***************************************************************************)
(* Vocabulary of the properties: the notifications the last operation      *)
(* appended, and the alert each rule of the scanner is specified to give.  *)
(***************************************************************************)
ScanDone == last.op = "checkComplianceAlerts" /\ last.outcome = "ok"

CreatedIdx == (last.before + 1)..Len(notifications)

ReviewTypes == {"compliance_alert", "iep_due"}

\* the review-deadline notifications the last operation created for a record
ReviewCreated(id) ==
  {i \in CreatedIdx : notifications[i].relatedId = id
                       /\ notifications[i].type \in ReviewTypes}

\* the goal_update notifications the last operation created for a goal
GoalCreated(id, area) ==
  {i \in CreatedIdx : /\ notifications[i].relatedId = id
                       /\ notifications[i].type = "goal_update"
                       /\ notifications[i].message[2] = area}

Accessible(id, u) ==
  ieps[id].createdBy = u \/ \E k \in 1..Len(ieps[id].teamMembers) :
                               ieps[id].teamMembers[k] = u

\* <<type, priority>> of the review-deadline alert specified for a record
\* whose review date parses to d, as a set of at most one pair
ExpectedReview(d, status, t) ==
  IF d < t /\ status = "active" THEN {<<"compliance_alert", "high">>}
  ELSE IF t <= d /\ d <= t + 7 * DayMs THEN {<<"iep_due", "high">>}
  ELSE IF t + 7 * DayMs < d /\ d <= t + 30 * DayMs THEN {<<"iep_due", "medium">>}
  ELSE {}

ReviewAsExpected(id) ==
  LET exp == ExpectedReview(ieps[id].annualReviewDate.t, ieps[id].status, now)
  IN /\ Cardinality(ReviewCreated(id)) = Cardinality(exp)
     /\ \A i \in ReviewCreated(id) :
          <<notifications[i].type, notifications[i].priority>> \in exp

Stale(id, goalId) ==
  ~ \E k \in 1..Len(progressData) :
       /\ progressData[k].iepId = id
       /\ progressData[k].goalId = goalId
       /\ progressData[k].creationTime >= now - 30 * DayMs

GoalsAsExpected(id) ==
  \A k \in 1..Len(ieps[id].content.goals) :
     LET g == ieps[id].content.goals[k]
     IN /\ Cardinality(GoalCreated(id, g.area)) = (IF Stale(id, g.id) THEN 1 ELSE 0)
        /\ \A i \in GoalCreated(id, g.area) : notifications[i].priority = "medium"

(***************************************************************************)
(* C1: one scan creates at most one review-deadline notification (overdue, *)
(* due in 7 days, due in 30 days) for each record.                         *)
(***************************************************************************)
C1_AtMostOneReviewAlert ==
  ScanDone => \A id \in 1..Len(ieps) : Cardinality(ReviewCreated(id)) <= 1

\* a scan met a review date exactly 7 days ahead, where the 7-day and the
\* 30-day conditions both hold, and created one alert for it
C1_Witness ==
  /\ ScanDone
  /\ \E id \in 1..Len(ieps) :
       /\ ieps[id].annualReviewDate = DateString(now + 7 * DayMs)
       /\ Cardinality(ReviewCreated(id)) = 1

(***************************************************************************)
(* C2: a record whose status is not active never gets a compliance_alert   *)
(* from a scan, whatever its review date and the time of the scan.         *)
(***************************************************************************)
C2_InactiveNeverOverdue ==
  ScanDone =>
    \A id \in 1..Len(ieps) :
       ieps[id].status # "active" =>
         ~ \E i \in CreatedIdx : /\ notifications[i].relatedId = id
                                 /\ notifications[i].type = "compliance_alert"

\* a scan by an actor with access met an expired record whose review date
\* is in the past
C2_Witness ==
  /\ ScanDone
  /\ \E id \in 1..Len(ieps) :
       /\ Accessible(id, last.actor)
       /\ ieps[id].status = "expired"
       /\ ieps[id].annualReviewDate.valid
       /\ ieps[id].annualReviewDate.t < now
       /\ Cardinality(CreatedIdx) > 0

(***************************************************************************)
(* C3: for an accessible record with review date d and scan time now, the  *)
(* scan creates compliance_alert/high iff d < now and the status is        *)
(* active; otherwise iep_due/high iff now <= d <= now+7d; otherwise        *)
(* iep_due/medium iff now+7d < d <= now+30d; otherwise nothing.            *)
(***************************************************************************)
C3_ReviewClassification ==
  ScanDone =>
    \A id \in 1..Len(ieps) :
       (Accessible(id, last.actor) /\ ieps[id].annualReviewDate.valid)
         => ReviewAsExpected(id)

\* a scan after the clock moved: a date that was 7 days and one hour ahead
\* is now exactly 7 days ahead and got the high-priority iep_due
C3_Witness ==
  /\ ScanDone
  /\ now > StartTime
  /\ \E id \in 1..Len(ieps) :
       /\ Accessible(id, last.actor)
       /\ ieps[id].annualReviewDate = DateString(now + 7 * DayMs)
       /\ \E i \in ReviewCreated(id) : notifications[i].priority = "high"

(***************************************************************************)
(* C4: in one scan, for every accessible record and every goal of it, one  *)
(* goal_update/medium notification is created iff no observation of that   *)
(* (record, goal) pair was created at or after now - 30 days; whichever    *)
(* review rule fired, and whatever other records or goals were observed.   *)
(***************************************************************************)
C4_StaleGoalAlerts ==
  ScanDone =>
    \A id \in 1..Len(ieps) :
       /\ Accessible(id, last.actor) => GoalsAsExpected(id)
       /\ ~Accessible(id, last.actor) =>
            ~ \E i \in CreatedIdx : notifications[i].relatedId = id

\* a scan of two records: the first has a review alert, a goal observed
\* inside the 30 days (no alert) and a stale goal (alert); the second has a
\* goal with the id of the observed one and no observation of its own
C4_Witness ==
  /\ ScanDone
  /\ Len(ieps) = 2
  /\ Accessible(1, last.actor) /\ Accessible(2, last.actor)
  /\ ReviewCreated(1) # {}
  /\ \E j, k \in 1..Len(ieps[1].content.goals), m \in 1..Len(ieps[2].content.goals) :
       /\ ~Stale(1, ieps[1].content.goals[j].id)
       /\ GoalCreated(1, ieps[1].content.goals[j].area) = {}
       /\ Stale(1, ieps[1].content.goals[k].id)
       /\ GoalCreated(1, ieps[1].content.goals[k].area) # {}
       /\ ieps[2].content.goals[m].id = ieps[1].content.goals[j].id
       /\ GoalCreated(2, ieps[2].content.goals[m].area) # {}

(***************************************************************************)
(* C5: the scanner makes no existence check: a scan that directly follows  *)
(* a scan by the same actor (same store, observations and clock) appends   *)
(* the same alerts again and keeps the earlier ones.                       *)
(***************************************************************************)
C5_NoDeduplication ==
  [][(/\ ScanDone
      /\ last'.op = "checkComplianceAlerts" /\ last'.outcome = "ok"
      /\ last'.actor = last.actor)
     => /\ last'.before = Len(notifications)
        /\ SubSeq(notifications', 1, Len(notifications)) = notifications
        /\ SubSeq(notifications', Len(notifications) + 1, Len(notifications'))
             = SubSeq(notifications, last.before + 1, Len(notifications))]_vars

\* two scans in a row over one overdue active record left two
\* compliance_alert notifications for it
C5_Witness ==
  /\ ScanDone
  /\ last.before > 0
  /\ \E id \in 1..Len(ieps) :
       /\ ieps[id].status = "active"
       /\ Cardinality({i \in 1..Len(notifications) :
                         /\ notifications[i].type = "compliance_alert"
                         /\ notifications[i].relatedId = id
                         /\ notifications[i].userId = last.actor}) = 2

(***************************************************************************)
(* C6: every notification a scan creates has the scanning actor as         *)
(* recipient and read = false, and the scan changes no notification that   *)
(* was there before.                                                       *)
(***************************************************************************)
C6_ScanAddressesActorOnly ==
  [][last'.op = "checkComplianceAlerts" =>
       /\ Len(notifications') >= Len(notifications)
       /\ SubSeq(notifications', 1, Len(notifications)) = notifications
       /\ \A i \in (Len(notifications) + 1)..Len(notifications') :
            /\ notifications'[i].userId = last'.actor
            /\ notifications'[i].read = FALSE]_vars

\* a scan by u1 created an overdue alert for a record owned by u2
C6_Witness ==
  /\ ScanDone
  /\ \E i \in CreatedIdx :
       /\ notifications[i].type = "compliance_alert"
       /\ ieps[notifications[i].relatedId].createdBy # last.actor
       /\ notifications[i].userId = last.actor

(***************************************************************************)
(* C10: a record whose review date does not parse gets no review-deadline  *)
(* alert and stops nothing: the same scan gives every other accessible     *)
(* record its review alert and every accessible record, the malformed one  *)
(* included, its goal alerts.                                              *)
(***************************************************************************)
C10_BadDateIsolated ==
  (ScanDone /\ \E m \in 1..Len(ieps) :
                 Accessible(m, last.actor) /\ ~ieps[m].annualReviewDate.valid)
  => \A id \in 1..Len(ieps) :
        Accessible(id, last.actor) =>
          /\ GoalsAsExpected(id)
          /\ IF ieps[id].annualReviewDate.valid
             THEN ReviewAsExpected(id)
             ELSE ReviewCreated(id) = {}

\* the first record scanned has no parsable date and a stale goal; the
\* record after it has a review alert
C10_Witness ==
  /\ ScanDone
  /\ Len(ieps) = 2
  /\ Accessible(1, last.actor) /\ Accessible(2, last.actor)
  /\ ~ieps[1].annualReviewDate.valid
  /\ ieps[1].status = "active"
  /\ \E k \in 1..Len(ieps[1].content.goals) :
       GoalCreated(1, ieps[1].content.goals[k].area) # {}
  /\ ReviewCreated(2) # {}

(***************************************************************************)
(* C7: the aggregator, the trend bucketizer and the scanner each take      *)
(* into account exactly the records r with r.createdBy = actor or actor in *)
(* r.teamMembers: inside the time window or bucket asked for, the counts   *)
(* are the counts of those records, and a scan gives each of them its      *)
(* alerts and creates nothing for any other record.                        *)
(***************************************************************************)
InWindow(id, from, to) ==
  ieps[id].creationTime >= from /\ ieps[id].creationTime < to

C7_SameAccessFilter ==
  /\ (last.op = "getIEPAnalytics" /\ last.outcome = "ok") =>
       LET u == last.actor
           len == timeRangeMs(last.args)
           mine == {id \in 1..Len(ieps) : Accessible(id, u)}
       IN /\ last.ret.overview.totalIEPs =
               Cardinality({id \in mine : ieps[id].creationTime >= now - len})
          /\ last.ret.overview.activeIEPs =
               Cardinality({id \in mine : /\ ieps[id].creationTime >= now - len
                                          /\ ieps[id].status = "active"})
          /\ last.ret.compliance.upcomingReviews =
               Cardinality({id \in mine :
                  /\ ieps[id].creationTime >= now - len
                  /\ ieps[id].annualReviewDate.valid
                  /\ ieps[id].annualReviewDate.t >= now
                  /\ ieps[id].annualReviewDate.t <= now + 30 * DayMs})
          /\ \A p \in 1..6 :
               LET from == now - (7 - p) * (len \div 6)
                   to == now - (6 - p) * (len \div 6)
               IN /\ last.ret.trends[p].iepsCreated =
                       Cardinality({id \in mine : InWindow(id, from, to)})
                  /\ last.ret.trends[p].activeIEPs =
                       Cardinality({id \in mine : /\ InWindow(id, from, to)
                                                  /\ ieps[id].status = "active"})
  /\ ScanDone =>
       \A id \in 1..Len(ieps) :
          IF Accessible(id, last.actor)
          THEN ReviewAsExpected(id) /\ GoalsAsExpected(id)
          ELSE ~ \E i \in CreatedIdx : notifications[i].relatedId = id

\* the aggregator counted two records for an actor who owns one without
\* being on its team and is on the team of the other without owning it
C7_Witness ==
  /\ last.op = "getIEPAnalytics" /\ last.outcome = "ok"
  /\ ieps[1].createdBy = last.actor
  /\ \A k \in 1..Len(ieps[1].teamMembers) : ieps[1].teamMembers[k] # last.actor
  /\ ieps[2].createdBy # last.actor
  /\ \E k \in 1..Len(ieps[2].teamMembers) : ieps[2].teamMembers[k] = last.actor
  /\ last.ret.overview.totalIEPs = 2
  /\ \E p \in 1..6 : last.ret.trends[p].iepsCreated = 2

(***************************************************************************)
(* C8: for every authenticated actor and every content of the record       *)
(* store, getUserIEPs returns exactly the records with createdBy = actor   *)
(* or actor in teamMembers, and getIEP returns a record iff the same       *)
(* predicate holds and rejects otherwise.                                  *)
(***************************************************************************)
C8_AccessorContract ==
  /\ (last.op = "getUserIEPs" /\ last.actor # NoUser) =>
       /\ last.outcome = "ok"
       /\ {last.ret[k] : k \in 1..Len(last.ret)} =
            {id \in 1..Len(ieps) : Accessible(id, last.actor)}
  /\ (last.op = "getIEP" /\ last.actor # NoUser /\ last.args \in 1..Len(ieps)) =>
       /\ last.outcome = "ok" <=> Accessible(last.args, last.actor)
       /\ last.outcome = "ok" => last.ret = ieps[last.args]

(***************************************************************************)
(* C9: with no resolved actor, getUserIEPs returns the empty list, getIEP  *)
(* is rejected, and checkComplianceAlerts, markNotificationRead,           *)
(* markAllNotificationsRead and generateReport are rejected and leave the  *)
(* notification, report and record stores as they were.                    *)
(***************************************************************************)
C9_UnauthenticatedRejected ==
  [][last'.actor = NoUser =>
       /\ last'.op = "getUserIEPs" =>
            last'.outcome = "ok" /\ last'.ret = <<>>
       /\ last'.op = "getIEP" => last'.outcome # "ok"
       /\ last'.op \in {"checkComplianceAlerts", "markNotificationRead",
                         "markAllNotificationsRead", "generateReport"} =>
            /\ last'.outcome # "ok"
            /\ UNCHANGED <<notifications, reports, ieps>>]_vars

\* an unauthenticated scan was rejected while the actor-less filter had a
\* record, an unread notification and a report to work on
C9_Witness ==
  /\ last.op = "checkComplianceAlerts"
  /\ last.actor = NoUser
  /\ last.outcome = "Not authenticated"
  /\ Len(ieps) > 0
  /\ Len(reports) > 0
  /\ \E i \in 1..Len(notifications) : ~notifications[i].read

Unmarked(n) == [n EXCEPT !.read = FALSE, !.readAt = {}]

CountOf(x, seq) == Cardinality({i \in 1..Len(seq) : seq[i] = x})

SameBag(s1, s2) ==
  /\ Len(s1) = Len(s2)
  /\ \A i \in 1..Len(s1) : CountOf(s1[i], s1) = CountOf(s1[i], s2)

AloneAlerts(slot) ==
  IF inflight[slot].pc = "done" THEN scanAlerts(inflight[slot].actor, now) ELSE <<>>

C12_ConcurrentScansLoseNothing ==
  LET stored == [i \in 1..Len(notifications) |-> Unmarked(notifications[i])]
      first == scanAlerts("u2", StartTime)
  IN /\ SameBag(stored, first \o AloneAlerts("a") \o AloneAlerts("b"))
     /\ SameBag(stored, first \o AloneAlerts("b") \o AloneAlerts("a"))
     /\ \A i \in 1..Len(notifications) :
          /\ notifications[i].read = (notifications[i].readAt # {})
          /\ notifications[i].readAt \subseteq {now}

\* both scans started on the same snapshot and both committed, one of them
\* for u1 and one for u2, with a read mark made in between
C12_Witness ==
  /\ inflight["a"].pc = "done" /\ inflight["b"].pc = "done"
  /\ inflight["a"].began = inflight["b"].began
  /\ inflight["a"].actor # inflight["b"].actor
  /\ Len(inflight["a"].writes) > 0 /\ Len(inflight["b"].writes) > 0
  /\ \E i \in 1..Len(notifications) : notifications[i].read
  /\ \E i \in 1..Len(notifications) : ~notifications[i].read

(***************************************************************************)
(* What the claims about the aggregator speak of: the call that has just   *)
(* returned, the duration the spec gives each label, and the cohort.       *)
(***************************************************************************)
AggregateDone == last.op = "getIEPAnalytics" /\ last.outcome = "ok"

DurationFor(label) ==
  CASE label = "week" -> 7 * DayMs
    [] label = "month" -> 30 * DayMs
    [] label = "quarter" -> 90 * DayMs
    [] OTHER -> 365 * DayMs

Windowed ==
  {id \in 1..Len(ieps) : /\ Accessible(id, last.actor)
                         /\ ieps[id].creationTime >= now - DurationFor(last.args)}

RECURSIVE SumCount(_)
SumCount(S) ==
  IF S = {} THEN 0 ELSE LET e == CHOOSE x \in S : TRUE IN e.count + SumCount(S \ {e})

RECURSIVE SumPercentage(_)
SumPercentage(S) ==
  IF S = {} THEN 0
  ELSE LET e == CHOOSE x \in S : TRUE IN e.percentage + SumPercentage(S \ {e})

\* p is count/total*100 rounded to the nearest integer, halves upwards
IsRounded(p, count, total) ==
  /\ 2 * p * total <= 200 * count + total
  /\ 200 * count + total < 2 * (p + 1) * total

(***************************************************************************)
(* C13.  The counts of statusDistribution sum to overview.totalIEPs, each  *)
(* percentage is round(count/total*100), the percentages sum to 100 within *)
(* 0.5 per status present, and an empty cohort has the empty distribution. *)
(***************************************************************************)
C13_StatusDistribution ==
  AggregateDone =>
    LET dist == last.ret.statusDistribution
        total == last.ret.overview.totalIEPs
        diff == SumPercentage(dist) - 100
    IN /\ total = Cardinality(Windowed)
       /\ SumCount(dist) = total
       /\ \A e \in dist :
            /\ e.count = Cardinality({id \in Windowed : ieps[id].status = e.status})
            /\ e.count > 0
            /\ IsRounded(e.percentage, e.count, total)
       /\ \A e1 \in dist, e2 \in dist : e1.status = e2.status => e1 = e2
       /\ total > 0 => /\ 2 * diff <= Cardinality(dist)
                       /\ 2 * (0 - diff) <= Cardinality(dist)
       /\ total = 0 => dist = {} /\ SumPercentage(dist) = 0

\* three records of three statuses: 33 + 33 + 33
C13_Witness ==
  /\ AggregateDone
  /\ Cardinality(last.ret.statusDistribution) = 3
  /\ SumPercentage(last.ret.statusDistribution) = 99

(***************************************************************************)
(* C14.  totalGoals is the sum of the goal-list lengths of the windowed    *)
(* cohort, completedGoals the number of goals with progress >= 100,        *)
(* inProgressGoals the number with 0 < progress < 100, goalCompletionRate  *)
(* round(completed/total*100) and 0 without goals; progress outside 0..100 *)
(* is tolerated, completed + inProgress <= total and 0 <= rate <= 100.     *)
(* Goals of progress 100, 100, 40, 0 give 2 completed, 1 in progress, 50.  *)
(***************************************************************************)
WindowedGoals ==
  UNION {{<<id, k>> : k \in 1..Len(ieps[id].content.goals)} : id \in Windowed}

ProgressAt(g) == ieps[g[1]].content.goals[g[2]].progress

C14_GoalMetrics ==
  AggregateDone =>
    LET o == last.ret.overview
    IN /\ o.totalGoals = Cardinality(WindowedGoals)
       /\ o.completedGoals =
            Cardinality({g \in WindowedGoals : ProgressAt(g) >= 100})
       /\ o.inProgressGoals =
            Cardinality({g \in WindowedGoals : 0 < ProgressAt(g) /\ ProgressAt(g) < 100})
       /\ IF o.totalGoals = 0 THEN o.goalCompletionRate = 0
          ELSE IsRounded(o.goalCompletionRate, o.completedGoals, o.totalGoals)
       /\ o.completedGoals + o.inProgressGoals <= o.totalGoals
       /\ 0 <= o.goalCompletionRate /\ o.goalCompletionRate <= 100
       /\ (\E id \in Windowed :
             /\ Windowed = {id}
             /\ [k \in 1..Len(ieps[id].content.goals) |->
                   ieps[id].content.goals[k].progress] = <<100, 100, 40, 0>>)
          => /\ o.completedGoals = 2
             /\ o.inProgressGoals = 1
             /\ o.goalCompletionRate = 50

\* a cohort whose goals have progress 150, 40 and below zero: one
\* completed, one in progress, one that is neither
C14_Witness ==
  /\ AggregateDone
  /\ {ProgressAt(g) : g \in WindowedGoals} = {150, 0 - 5, 40}
  /\ last.ret.overview.totalGoals = 3
  /\ last.ret.overview.completedGoals = 1
  /\ last.ret.overview.inProgressGoals = 1
  /\ last.ret.overview.goalCompletionRate = 33

(***************************************************************************)
(* C15.  upcomingReviews is the number of records of the windowed cohort,  *)
(* of any status, with now <= annualReviewDate <= now + 30 days;           *)
(* overdueReviews the number with annualReviewDate < now and status        *)
(* active; complianceRate is round((total - overdue)/total*100) and 100    *)
(* for the empty cohort.  Ten records with two overdue give 80.            *)
(***************************************************************************)
ReviewAt(id) == ieps[id].annualReviewDate

C15_ComplianceMetrics ==
  AggregateDone =>
    LET c == last.ret.compliance
        total == Cardinality(Windowed)
    IN /\ c.upcomingReviews =
            Cardinality({id \in Windowed : /\ ReviewAt(id).valid
                                           /\ now <= ReviewAt(id).t
                                           /\ ReviewAt(id).t <= now + 30 * DayMs})
       /\ c.overdueReviews =
            Cardinality({id \in Windowed : /\ ReviewAt(id).valid
                                           /\ ReviewAt(id).t < now
                                           /\ ieps[id].status = "active"})
       /\ IF total = 0 THEN c.complianceRate = 100
          ELSE IsRounded(c.complianceRate, total - c.overdueReviews, total)
       /\ (total = 10 /\ c.overdueReviews = 2) => c.complianceRate = 80

\* the cohort of ten: two overdue, one due in three days
C15_Witness ==
  /\ AggregateDone
  /\ Cardinality(Windowed) = 10
  /\ last.ret.compliance.overdueReviews = 2
  /\ last.ret.compliance.upcomingReviews = 1
  /\ last.ret.compliance.complianceRate = 80

(***************************************************************************)
(* C16.  calculateTrends returns exactly 6 buckets numbered 1..6, oldest   *)
(* first; their half-open intervals [periodStart, periodEnd) have equal    *)
(* length, each ends where the next starts, the first starts at            *)
(* now - range and the last ends at now; a bucket counts the accessible    *)
(* records created in its interval, a bucket without records is present    *)
(* with both counts 0, and 0 <= activeIEPs <= iepsCreated in every bucket. *)
(***************************************************************************)
CreatedIn(from, to) ==
  {id \in 1..Len(ieps) : /\ Accessible(id, last.actor)
                         /\ from <= ieps[id].creationTime
                         /\ ieps[id].creationTime < to}

C16_TrendBuckets ==
  AggregateDone =>
    LET range == DurationFor(last.args)
        length == range \div 6
        trends == last.ret.trends
        from(p) == periodStart(p - 1, length, now)
        to(p) == periodEnd(p - 1, length, now)
    IN /\ DOMAIN trends = 1..6
       /\ 6 * length = range
       /\ from(1) = now - range
       /\ to(6) = now
       /\ \A p \in 1..5 : to(p) = from(p + 1)
       /\ \A p \in 1..6 :
            /\ to(p) - from(p) = length
            /\ from(p) = now - range + (p - 1) * length
            /\ trends[p].period = p
            /\ trends[p].date = from(p) \div DayMs
            /\ trends[p].iepsCreated =
                 Cardinality(CreatedIn(now - range + (p - 1) * length,
                                       now - range + p * length))
            /\ trends[p].activeIEPs =
                 Cardinality({id \in CreatedIn(now - range + (p - 1) * length,
                                               now - range + p * length) :
                                ieps[id].status = "active"})
            /\ 0 <= trends[p].activeIEPs
            /\ trends[p].activeIEPs <= trends[p].iepsCreated

\* a week of six buckets of 28 hours: a record created exactly where the
\* last bucket starts is counted in the last bucket and not in the fifth,
\* which is present and empty
C16_Witness ==
  /\ AggregateDone
  /\ last.args = "week"
  /\ \E id \in 1..Len(ieps) : /\ Accessible(id, last.actor)
                              /\ ieps[id].creationTime = now - 28
                              /\ ieps[id].status = "active"
  /\ last.ret.trends[6].iepsCreated > 0
  /\ last.ret.trends[6].activeIEPs > 0
  /\ last.ret.trends[5].iepsCreated = 0
  /\ last.ret.trends[5].activeIEPs = 0

(***************************************************************************)
(* C17.  The aggregation window starts at now - durationFor(label): 7      *)
(* days for week, 30 for month, 90 for quarter, 365 for year and for any   *)
(* other or absent label; the cohort is exactly the accessible records     *)
(* with creationTime >= start, a record created exactly at start included. *)
(***************************************************************************)
SinceDays(n) ==
  {id \in 1..Len(ieps) : /\ Accessible(id, last.actor)
                         /\ ieps[id].creationTime >= now - n * DayMs}

C17_WindowStart ==
  AggregateDone =>
    LET o == last.ret.overview
        cohortIds == CASE last.args = "week" -> SinceDays(7)
                       [] last.args = "month" -> SinceDays(30)
                       [] last.args = "quarter" -> SinceDays(90)
                       [] OTHER -> SinceDays(365)
        having(st) == Cardinality({id \in cohortIds : ieps[id].status = st})
    IN /\ timeRangeMs(last.args) = DurationFor(last.args)
       /\ o.totalIEPs = Cardinality(cohortIds)
       /\ o.activeIEPs = having("active")
       /\ o.draftIEPs = having("draft")
       /\ o.inReviewIEPs = having("in_review")
       /\ \A st \in Statuses :
            having(st) > 0 =>
              \E e \in last.ret.statusDistribution :
                 e.status = st /\ e.count = having(st)

\* no label given: of two accessible records the one created exactly 365
\* days ago is in the cohort, the one created an hour earlier is not
C17_Witness ==
  /\ AggregateDone
  /\ last.args = NoRange
  /\ Len(ieps) = 2
  /\ Accessible(1, last.actor) /\ Accessible(2, last.actor)
  /\ ieps[1].creationTime = now - 365 * DayMs
  /\ ieps[2].creationTime = now - 365 * DayMs - 1
  /\ last.ret.overview.totalIEPs = 1
  /\ last.ret.overview.activeIEPs = 1

(***************************************************************************)
(* What the claims about read marks speak of: the fields of a notification *)
(* other than read and readAt.                                             *)
(***************************************************************************)
Payload(n) ==
  <<n.userId, n.type, n.title, n.message, n.priority, n.relatedId, n.actionUrl>>

(***************************************************************************)
(* C18.  markNotificationRead called by the recipient of an existing       *)
(* notification succeeds, sets that notification's read to true and its    *)
(* readAt to the current time, and changes no other field of it and no     *)
(* other notification.                                                     *)
(***************************************************************************)
C18_MarkOneRead ==
  [][(/\ last'.op = "markNotificationRead"
      /\ last'.args \in 1..Len(notifications)
      /\ notifications[last'.args].userId = last'.actor)
     => /\ last'.outcome = "ok"
        /\ Len(notifications') = Len(notifications)
        /\ notifications'[last'.args].read = TRUE
        /\ notifications'[last'.args].readAt = {now}
        /\ Payload(notifications'[last'.args]) = Payload(notifications[last'.args])
        /\ DOMAIN notifications'[last'.args] = DOMAIN notifications[last'.args]
        /\ \A j \in 1..Len(notifications) :
             j # last'.args => notifications'[j] = notifications[j]]_vars

\* the recipient has marked one of two notifications after the clock
\* advanced; the other one, and a notification of the other user, are unread
C18_Witness ==
  /\ last.op = "markNotificationRead" /\ last.outcome = "ok"
  /\ now > StartTime
  /\ notifications[last.args].read /\ notifications[last.args].readAt = {now}
  /\ \E j \in 1..Len(notifications) :
       /\ j # last.args
       /\ notifications[j].userId = last.actor
       /\ ~notifications[j].read
  /\ \E j \in 1..Len(notifications) :
       notifications[j].userId # last.actor /\ ~notifications[j].read

(***************************************************************************)
(* C19.  markNotificationRead called by a user who is not the recipient,   *)
(* or on a notification that does not exist, fails with the not-found /    *)
(* access-denied error and leaves read and readAt of that notification and *)
(* the whole notification store unchanged.                                 *)
(***************************************************************************)
C19_MarkOneDenied ==
  [][(/\ last'.op = "markNotificationRead"
      /\ last'.actor # NoUser
      /\ \/ last'.args \notin 1..Len(notifications)
         \/ notifications[last'.args].userId # last'.actor)
     => /\ last'.outcome = "Notification not found or access denied"
        /\ notifications' = notifications]_vars

\* a user was refused on an unread notification of the other user, which
\* is still unread
C19_Witness ==
  /\ last.op = "markNotificationRead"
  /\ last.outcome = "Notification not found or access denied"
  /\ last.actor \in Users
  /\ last.args \in 1..Len(notifications)
  /\ notifications[last.args].userId # last.actor
  /\ ~notifications[last.args].read
  /\ notifications[last.args].readAt = {}

(***************************************************************************)
(* C20.  markAllNotificationsRead by user u marks, in one step, exactly    *)
(* the notifications of u that were unread; a getUnreadCount of u that     *)
(* follows immediately returns 0; every notification of another user and   *)
(* every notification of u that was read already, its readAt included, is  *)
(* unchanged.                                                              *)
(***************************************************************************)
C20_MarkAllRead ==
  [][/\ (last'.op = "markAllNotificationsRead" /\ last'.outcome = "ok")
        => /\ Len(notifications') = Len(notifications)
           /\ \A i \in 1..Len(notifications) :
                IF notifications[i].userId = last'.actor /\ ~notifications[i].read
                THEN /\ notifications'[i].read = TRUE
                     /\ notifications'[i].readAt = {now}
                     /\ Payload(notifications'[i]) = Payload(notifications[i])
                ELSE notifications'[i] = notifications[i]
           /\ ~ \E i \in 1..Len(notifications') :
                  notifications'[i].userId = last'.actor /\ ~notifications'[i].read
     /\ (/\ last.op = "markAllNotificationsRead" /\ last.outcome = "ok"
         /\ last'.op = "getUnreadCount" /\ last'.actor = last.actor)
        => last'.outcome = "ok" /\ last'.ret = 0]_vars

\* u marked all after the clock advanced: one notification of u was read
\* earlier and keeps its earlier readAt, one was unread and now carries the
\* current time, and a notification of the other user is still unread
C20_Witness ==
  /\ last.op = "markAllNotificationsRead" /\ last.outcome = "ok"
  /\ now > StartTime
  /\ \E i \in 1..Len(notifications) :
       /\ notifications[i].userId = last.actor
       /\ notifications[i].readAt = {StartTime}
  /\ \E i \in 1..Len(notifications) :
       /\ notifications[i].userId = last.actor
       /\ notifications[i].readAt = {now}
  /\ \E i \in 1..Len(notifications) :
       notifications[i].userId # last.actor /\ ~notifications[i].read

(***************************************************************************)
(* C21.  Across any sequence of scans, meeting reminders and read marks a  *)
(* notification once created is never deleted and its recipient, type,     *)
(* title, message, priority and relatedId never change; only read and      *)
(* readAt are modified, so the number of notifications of each user never  *)
(* decreases.                                                              *)
(***************************************************************************)
CountFor(store, u) == Cardinality({i \in 1..Len(store) : store[i].userId = u})

C21_NotificationsAppendOnly ==
  [][/\ Len(notifications') >= Len(notifications)
     /\ \A i \in 1..Len(notifications) :
          Payload(notifications'[i]) = Payload(notifications[i])
     /\ \A u \in Users : CountFor(notifications', u) >= CountFor(notifications, u)]_vars

\* a scan alert and the reminders of a meeting are stored, some of them
\* read and some not, after a read mark
C21_Witness ==
  /\ last.op \in {"markNotificationRead", "markAllNotificationsRead"}
  /\ last.outcome = "ok"
  /\ \E i \in 1..Len(notifications) : notifications[i].type = "compliance_alert"
  /\ \E i \in 1..Len(notifications) : notifications[i].type = "meeting_reminder"
  /\ \E i \in 1..Len(notifications) : ~notifications[i].read
  /\ \E i \in 1..Len(notifications) : notifications[i].read

(***************************************************************************)
(* C22.  getNotifications with limit N returns only the caller's own       *)
(* notifications, newest first, and exactly the min(N, k) most recently    *)
(* created of the caller's k notifications, for every N supplied; without  *)
(* a limit N is 20.                                                        *)
(***************************************************************************)
C22_NewestNOfCaller ==
  (last.op = "getNotifications" /\ last.outcome = "ok") =>
    LET N == IF last.args = {} THEN 20 ELSE CHOOSE x \in last.args : TRUE
        mine == {i \in 1..Len(notifications) : notifications[i].userId = last.actor}
        k == Cardinality(mine)
        page == last.ret
    IN /\ Len(page) = IF N < k THEN N ELSE k
       /\ \A j \in 1..Len(page) : page[j] \in mine
       /\ \A j \in 1..(Len(page) - 1) : page[j] > page[j + 1]
       /\ \A i \in mine :
            (\E j \in 1..Len(page) : page[j] = i)
              <=> Cardinality({m \in mine : m > i}) < N

(***************************************************************************)
(* C23.  Each successful generateReport appends exactly one snapshot owned *)
(* by the caller, with status generated and data equal to the aggregation  *)
(* result at that moment; afterwards no operation and no change to case    *)
(* records, goals or notifications updates or deletes a snapshot, and no   *)
(* snapshot is ever in status generating or failed.                        *)
(***************************************************************************)
C23_SnapshotsImmutable ==
  [][/\ Len(reports') >= Len(reports)
     /\ \A i \in 1..Len(reports) : reports'[i] = reports[i]
     /\ \A i \in 1..Len(reports') : reports'[i].status = "generated"
     /\ IF last'.op = "generateReport" /\ last'.outcome = "ok"
        THEN /\ Len(reports') = Len(reports) + 1
             /\ reports'[Len(reports')].userId = last'.actor
             /\ reports'[Len(reports')].data =
                  analytics(last'.actor, last'.args.timeRange, now)
        ELSE Len(reports') = Len(reports)]_vars

\* two snapshots of the same owner with different data, the record edited
\* after the second: neither equals what the aggregation gives now
C23_Witness ==
  /\ last.op = "updateIEP" /\ last.outcome = "ok"
  /\ Len(reports) = 2
  /\ reports[1].userId = reports[2].userId
  /\ reports[1].data # reports[2].data
  /\ \A i \in 1..2 :
       reports[i].data # analytics(reports[i].userId, reports[i].timeRange, now)
  /\ Len(notifications) > 0

(***************************************************************************)
(* C24.  No report snapshot is returned to a user other than its owner:    *)
(* getReport returns the snapshot iff the requester owns it and otherwise  *)
(* fails the same way as for a snapshot that does not exist; getReports    *)
(* returns only the requester's own snapshots, the most recent 20, newest  *)
(* first.                                                                  *)
(***************************************************************************)
C24_ReportsOwnerOnly ==
  /\ (last.op = "getReport" /\ last.actor # NoUser) =>
       IF last.args \in 1..Len(reports) /\ reports[last.args].userId = last.actor
       THEN last.outcome = "ok" /\ last.ret = <<reports[last.args]>>
       ELSE last.outcome = "Report not found or access denied" /\ last.ret = <<>>
  /\ (last.op = "getReports" /\ last.outcome = "ok") =>
       LET mine == {i \in 1..Len(reports) : reports[i].userId = last.actor}
           k == Cardinality(mine)
           page == last.ret
       IN /\ Len(page) = IF 20 < k THEN 20 ELSE k
          /\ \A j \in 1..Len(page) : page[j] \in mine
          /\ \A j \in 1..(Len(page) - 1) : page[j] > page[j + 1]
          /\ \A i \in mine :
               (\E j \in 1..Len(page) : page[j] = i)
                 <=> Cardinality({m \in mine : m > i}) < 20
  /\ last.op \in {"getReport", "getReports"} =>
       (last.actor = NoUser <=> last.outcome = "Not authenticated")

\* u1 owns 21 of 23 snapshots: the page holds the 20 newest of them and
\* neither the oldest nor the newer snapshot of u2
C24_Witness ==
  /\ last.op = "getReports" /\ last.outcome = "ok" /\ last.actor = "u1"
  /\ Len(reports) = 23
  /\ Len(last.ret) = 20
  /\ last.ret[1] = 23
  /\ reports[22].userId = "u2"
  /\ \A j \in 1..20 : last.ret[j] # 1 /\ last.ret[j] # 22

(***************************************************************************)
(* C25.  getIEPAnalytics writes nothing, and no operation of the core      *)
(* (getIEPAnalytics, checkComplianceAlerts, the notification operations,   *)
(* generateReport, getReports, getReport) modifies a case record or a      *)
(* progress observation.                                                   *)
(***************************************************************************)
CoreOps ==
  {"getIEPAnalytics", "checkComplianceAlerts", "sendMeetingReminder",
   "getNotifications", "getUnreadCount", "markNotificationRead",
   "markAllNotificationsRead", "generateReport", "getReports", "getReport"}

C25_CoreReadsRecordsOnly ==
  [][/\ last'.op \in CoreOps => ieps' = ieps /\ progressData' = progressData
     /\ last'.op = "getIEPAnalytics" =>
          /\ notifications' = notifications
          /\ reports' = reports
          /\ userProfiles' = userProfiles]_vars

\* a scan has just written an alert for an overdue active record, which is
\* still active, while a snapshot and a progress observation are stored
C25_Witness ==
  /\ last.op = "checkComplianceAlerts" /\ last.outcome = "ok"
  /\ Len(notifications) > last.before
  /\ ieps[1].status = "active"
  /\ Len(reports) > 0
  /\ Len(progressData) > 0

(***************************************************************************)
(* C26.  The filters argument of generateReport has no effect on the data: *)
(* two calls by the same actor over the same store, clock and timeRange    *)
(* that differ only in filters or in reportType store identical data; the  *)
(* filters are merely recorded on the snapshot, as {} when absent.         *)
(***************************************************************************)
C26_FiltersNotApplied ==
  [][(last'.op = "generateReport" /\ last'.outcome = "ok") =>
       LET new == reports'[Len(reports')]
       IN /\ new.filters = IF last'.args.filters = {} THEN {}
                           ELSE CHOOSE f \in last'.args.filters : TRUE
          /\ new.reportType = last'.args.reportType
          /\ \A j \in 1..Len(reports) :
               (/\ reports[j].userId = new.userId
                /\ reports[j].timeRange = new.timeRange
                /\ reports[j].creationTime = new.creationTime
                /\ ieps' = ieps)
               => reports[j].data = new.data]_vars

\* two snapshots of one user and one time range, the second with a status
\* filter and another report type: both count the draft record
C26_Witness ==
  /\ Len(reports) = 2
  /\ reports[1].userId = reports[2].userId
  /\ reports[1].timeRange = "year" /\ reports[2].timeRange = "year"
  /\ reports[1].filters = {} /\ reports[2].filters # {}
  /\ reports[1].reportType # reports[2].reportType
  /\ reports[1].data = reports[2].data
  /\ reports[2].data.overview.totalIEPs = 2
  /\ reports[2].data.overview.draftIEPs = 1

(***************************************************************************)
(* C27.  Within one getIEPAnalytics result every record of the windowed    *)
(* cohort is counted in exactly one trend bucket and no record outside the *)
(* cohort in any: the iepsCreated of the 6 buckets sum to                  *)
(* overview.totalIEPs and their activeIEPs sum to overview.activeIEPs.     *)
(***************************************************************************)
C27_BucketsPartitionCohort ==
  AggregateDone =>
    LET t == last.ret.trends
    IN /\ t[1].iepsCreated + t[2].iepsCreated + t[3].iepsCreated
          + t[4].iepsCreated + t[5].iepsCreated + t[6].iepsCreated
            = last.ret.overview.totalIEPs
       /\ t[1].activeIEPs + t[2].activeIEPs + t[3].activeIEPs
          + t[4].activeIEPs + t[5].activeIEPs + t[6].activeIEPs
            = last.ret.overview.activeIEPs

(***************************************************************************)
(* C28.  The scanner and the aggregator agree on what is overdue and due   *)
(* soon: for the same actor, store and instant a scan creates one          *)
(* compliance_alert for exactly the accessible records the overdueReviews  *)
(* rule counts and one iep_due for exactly those the upcomingReviews rule  *)
(* counts; the numbers of compliance_alert and iep_due notifications       *)
(* created equal overdueReviews and upcomingReviews when every accessible  *)
(* record lies in the aggregation window and are at least those otherwise. *)
(***************************************************************************)
CreatedOf(type) == {i \in CreatedIdx : notifications[i].type = type}

C28_ScannerAgreesWithAggregator ==
  ScanDone =>
    LET u == last.actor
        mine == {id \in 1..Len(ieps) : Accessible(id, u)}
    IN /\ \A id \in mine :
            /\ Cardinality({i \in CreatedOf("compliance_alert") :
                              notifications[i].relatedId = id})
                 = IF overdueReview(ieps[id], now) THEN 1 ELSE 0
            /\ Cardinality({i \in CreatedOf("iep_due") :
                              notifications[i].relatedId = id})
                 = IF upcomingReview(ieps[id], now) THEN 1 ELSE 0
       /\ \A label \in TimeRanges \cup {NoRange} :
            LET c == analytics(u, label, now).compliance
                allInside == \A id \in mine :
                               ieps[id].creationTime >= now - DurationFor(label)
            IN /\ Cardinality(CreatedOf("compliance_alert")) >= c.overdueReviews
               /\ Cardinality(CreatedOf("iep_due")) >= c.upcomingReviews
               /\ allInside =>
                    /\ Cardinality(CreatedOf("compliance_alert")) = c.overdueReviews
                    /\ Cardinality(CreatedOf("iep_due")) = c.upcomingReviews

\* a scan of u1 created a compliance_alert for the overdue record and an
\* iep_due for the draft record; the aggregation over the year counts both,
\* the aggregation over the week does not see the draft record
C28_Witness ==
  /\ ScanDone /\ last.actor = "u1"
  /\ Cardinality(CreatedOf("compliance_alert")) = 1
  /\ Cardinality(CreatedOf("iep_due")) = 1
  /\ analytics("u1", "year", now).compliance.overdueReviews = 1
  /\ analytics("u1", "year", now).compliance.upcomingReviews = 1
  /\ analytics("u1", "week", now).compliance.upcomingReviews = 0

(***************************************************************************)
(* C29.  In every reachable state of the notification store a notification *)
(* has read = true iff its readAt is set: a created notification has read  *)
(* = false and no readAt, both mark operations set the two together, and   *)
(* no operation sets read back to false or clears readAt.                  *)
(***************************************************************************)
C29_ReadIffReadAt ==
  [][\A i \in 1..Len(notifications') :
       /\ notifications'[i].read <=> notifications'[i].readAt # {}
       /\ i > Len(notifications) =>
            ~notifications'[i].read /\ notifications'[i].readAt = {}
       /\ (i <= Len(notifications) /\ notifications[i].read) =>
            notifications'[i].read /\ notifications'[i].readAt # {}]_vars

\* after a mark-all the reminder and the alert of one user are read and
\* stamped, and a reminder of the other user is unread without a stamp
C29_Witness ==
  /\ last.op = "markAllNotificationsRead" /\ last.outcome = "ok"
  /\ \E i \in 1..Len(notifications), j \in 1..Len(notifications) :
       /\ notifications[i].userId = last.actor
       /\ notifications[j].userId = last.actor
       /\ notifications[i].type = "meeting_reminder"
       /\ notifications[j].type = "compliance_alert"
       /\ notifications[i].read /\ notifications[i].readAt = {now}
       /\ notifications[j].read /\ notifications[j].readAt = {now}
  /\ \E i \in 1..Len(notifications) :
       /\ notifications[i].userId # last.actor
       /\ ~notifications[i].read /\ notifications[i].readAt = {}

(***************************************************************************)
(* C30.  After any sequence of createIEP and updateIEP calls every case    *)
(* record started in status draft with empty goals and services, its       *)
(* createdBy and teamMembers never change, and its creator is a member of  *)
(* its teamMembers; an updateIEP by a user who is neither creator nor team *)
(* member is rejected and leaves the record unchanged.                     *)
(***************************************************************************)
C30_RecordOwnershipStable ==
  [][/\ Len(ieps') >= Len(ieps)
     /\ \A i \in 1..Len(ieps) :
          /\ ieps'[i].createdBy = ieps[i].createdBy
          /\ ieps'[i].teamMembers = ieps[i].teamMembers
     /\ \A i \in 1..Len(ieps') :
          /\ ieps'[i].createdBy \in Range(ieps'[i].teamMembers)
          /\ i > Len(ieps) =>
               /\ last'.op = "createIEP" /\ last'.outcome = "ok"
               /\ i = Len(ieps) + 1
               /\ ieps'[i].createdBy = last'.actor
               /\ ieps'[i].status = "draft"
               /\ ieps'[i].content.goals = <<>>
               /\ ieps'[i].content.services = <<>>
     /\ (/\ last'.op = "updateIEP"
         /\ last'.actor # NoUser
         /\ last'.args \in 1..Len(ieps)
         /\ ieps[last'.args].createdBy # last'.actor
         /\ last'.actor \notin Range(ieps[last'.args].teamMembers))
        => last'.outcome = "Access denied" /\ ieps' = ieps]_vars

\* u2 was refused on a record that u1 created and has since activated,
\* renamed and given a goal; u2 has a record of its own
C30_Witness ==
  /\ last.op = "updateIEP" /\ last.outcome = "Access denied" /\ last.actor = "u2"
  /\ ieps[last.args].createdBy = "u1"
  /\ ieps[last.args].teamMembers = <<"u1">>
  /\ ieps[last.args].status = "active"
  /\ ieps[last.args].studentName = "Zed"
  /\ ieps[last.args].content.goals = <<G2>>
  /\ ieps[last.args].lastModifiedBy = "u1"
  /\ \E i \in 1..Len(ieps) : ieps[i].createdBy = "u2"

====
